---- MODULE Spec2Model ----
(***************************************************************************)
(* A state-machine model of the grid editor in src/src/main.ts: the        *)
(* GridManager, the App's history (saveToHistory / undo / redo), the       *)
(* pointer and keyboard handlers, shift / invert / resize, the            *)
(* structured-data loader and exporter, the backdrop image, the names of   *)
(* the exported files, and bresenhamLine, updatePixel and getMousePosition *)
(* invoked on their own.  A second model of the grid store and the history *)
(* keeps the row arrays as objects with addresses.  Reads of dropped files *)
(* that overlap, and the drawing session against the button and the keys   *)
(* the user holds, have specifications of their own.                       *)
(*                                                                         *)
(* Conventions.  JavaScript arrays are 0-indexed, TLA+ sequences are       *)
(* 1-indexed: positions, rows and columns keep the source's 0-based        *)
(* numbering and every sequence access adds one.  A nullable field is a    *)
(* sequence of length at most one (Null, Some(v)).  A hole or a read past  *)
(* the end of a row is the cell value Undefined.  Rendering (drawBase,     *)
(* drawOverlay, mousePosition) and lastPosition, which no handler reads,   *)
(* are left out.                                                           *)
(***************************************************************************)
EXTENDS Integers, Sequences, FiniteSets, TLC

VARIABLES
    gridSize,          \* App.gridSize
    pixelSize,         \* App.pixelSize
    grid,              \* App.grid (the same array as GridManager.grid)
    history,           \* App.history
    historyIndex,      \* App.historyIndex
    isDrawing,         \* App.drawingState.isDrawing
    hoverRegion,       \* App.drawingState.hoverRegion
    drawingMode,       \* App.drawingMode
    previousPosition,  \* App.previousPosition
    hoverPosition,     \* App.hoverPosition
    keyboardPosition,  \* App.keyboardPosition
    pendingReads,      \* FileReader reads started and not yet completed
    event,             \* the event handled last
    prior,             \* historyIndex and history.length when that event arrived
    fault,             \* what the last event's handlers did out of bounds, if anything
    pushed,            \* number of snapshots the last event's handlers pushed
    steps,             \* number of events handled (bounded by MaxEvents)
    call,              \* the function invoked on its own, with its arguments and locals
    saved,             \* the file exportAsJSON saved last (saveAs)
    backgroundImage,   \* App.backgroundImage
    pendingImages,     \* image files dropped whose FileReader or Image has not yet loaded
    heap,              \* the row arrays by address, and the arrays that hold them
    downloads,         \* the files handed to saveAs, and those canvas.toBlob is still encoding
    readers,           \* the FileReaders made for dropped JSON files, in the order of the drops
    held               \* the user's hand: the mouse button and the paint keys held down,
                       \* and whether the pointer is over the canvas

vars == <<gridSize, pixelSize, grid, history, historyIndex, isDrawing,
          hoverRegion, drawingMode, previousPosition, hoverPosition,
          keyboardPosition, pendingReads, event, prior, fault, pushed, steps,
          call, saved, backgroundImage, pendingImages, heap, downloads, readers, held>>

(***************************************************************************)
(* Bounds of the model.                                                    *)
(***************************************************************************)
\* Stands for DEFAULT_GRID_SIZE (26 in src/src/main.ts:11), scaled down.
DEFAULT_GRID_SIZE == 2
\* makeGridBigger is not taken beyond DEFAULT_GRID_SIZE + MaxGrow.
MaxGrow == 1
\* window.innerHeight, an input of updatePixelSize.
WindowHeight == 124
\* Number of events a behaviour of Spec handles.
MaxEvents == 3
\* Number of file reads in flight at once.
MaxPending == 1
\* Number of cells of a sample grid that are not clear.
MaxPainted == 1
\* Number of operations applied to the heap of row arrays.
MaxHeapOps == 3
\* Number of clicks on the export buttons.
MaxExports == 2
\* Cell coordinates handed to bresenhamLine on its own: -MaxCoord..MaxCoord.
MaxCoord == 2
\* How far beyond the canvas, in pixels, the pointer offsets handed to
\* getMousePosition on its own reach.
MaxOutside == 2

\* The history capacity of saveToHistory.
HISTORY_LIMIT == 100

(***************************************************************************)
(* Values.                                                                 *)
(***************************************************************************)
PixelState == {"clear", "black", "top-left", "top-right", "bottom-left", "bottom-right"}
Undefined == "undefined"
Null == << >>
Some(v) == <<v>>

Min(a, b) == IF a < b THEN a ELSE b
Abs(a) == IF a < 0 THEN -a ELSE a

createEmptyGrid(size) == [i \in 1..size |-> [j \in 1..size |-> "clear"]]

\* JSON.stringify of a grid: strings print as themselves, undefined and holes as null.
JSONstringify(g) ==
    [i \in 1..Len(g) |->
        [j \in 1..Len(g[i]) |-> IF g[i][j] = Undefined THEN "null" ELSE g[i][j]]]

\* g[row][col] raises a TypeError when g[row] is undefined.
ReadThrows(g, row) == row < 0 \/ row >= Len(g)
\* g[row][col] for an existing row: undefined past the end of the row.
ReadCell(g, row, col) ==
    IF col >= 0 /\ col < Len(g[row + 1]) THEN g[row + 1][col + 1] ELSE Undefined

\* newGrid[row][col] = state on a copy of the rows: a TypeError when the row
\* does not exist, an assignment past the end of a row lengthens it.
AssignCell(r, col, state) ==
    IF col < 0 THEN r
    ELSE IF col < Len(r) THEN [r EXCEPT ![col + 1] = state]
    ELSE r \o [k \in 1..(col - Len(r)) |-> Undefined] \o <<state>>

updatePixel(g, row, col, state) ==
    IF ReadThrows(g, row)
    THEN [threw |-> TRUE, grid |-> g]
    ELSE [threw |-> FALSE, grid |-> [g EXCEPT ![row + 1] = AssignCell(g[row + 1], col, state)]]

(***************************************************************************)
(* bresenhamLine: the cells handed to the callback, in order.              *)
(***************************************************************************)
\* Mutant of bresenhamStep: the second test is the else of the first, so no
\* step is diagonal.
bresenhamStepElseIf(x0, y0, dx, dy, sx, sy, err) ==
    LET e2 == 2 * err
    IN IF e2 > -dy THEN [x0 |-> x0 + sx, y0 |-> y0, err |-> err - dy]
       ELSE IF e2 < dx THEN [x0 |-> x0, y0 |-> y0 + sy, err |-> err + dx]
       ELSE [x0 |-> x0, y0 |-> y0, err |-> err]

\* Lines 66-74: the step from one cell to the next.
bresenhamStep(x0, y0, dx, dy, sx, sy, err) ==
    LET e2 == 2 * err
        stepX == e2 > -dy
        err1 == IF stepX THEN err - dy ELSE err
        nx == IF stepX THEN x0 + sx ELSE x0
        stepY == e2 < dx
        err2 == IF stepY THEN err1 + dx ELSE err1
        ny == IF stepY THEN y0 + sy ELSE y0
    IN [x0 |-> nx, y0 |-> ny, err |-> err2]

RECURSIVE bresenhamLoop(_, _, _, _, _, _, _, _, _)
bresenhamLoop(x0, y0, x1, y1, dx, dy, sx, sy, err) ==
    IF x0 = x1 /\ y0 = y1 THEN << <<x0, y0>> >>
    ELSE LET n == bresenhamStep(x0, y0, dx, dy, sx, sy, err)
         IN << <<x0, y0>> >> \o bresenhamLoop(n.x0, n.y0, x1, y1, dx, dy, sx, sy, n.err)

bresenhamLine(x0, y0, x1, y1) ==
    LET dx == Abs(x1 - x0)
        dy == Abs(y1 - y0)
        sx == IF x0 < x1 THEN 1 ELSE -1
        sy == IF y0 < y1 THEN 1 ELSE -1
    IN bresenhamLoop(x0, y0, x1, y1, dx, dy, sx, sy, dx - dy)

(***************************************************************************)
(* bresenhamLine one iteration at a time.  c holds the arguments (from,    *)
(* to), the constants and locals of the call, the cells handed to the      *)
(* callback so far and whether the loop has left through its break.        *)
(***************************************************************************)
bresenhamEnter(x0, y0, x1, y1) ==
    [fn |-> "bresenhamLine", from |-> <<x0, y0>>, to |-> <<x1, y1>>,
     dx |-> Abs(x1 - x0), dy |-> Abs(y1 - y0),
     sx |-> IF x0 < x1 THEN 1 ELSE -1, sy |-> IF y0 < y1 THEN 1 ELSE -1,
     x0 |-> x0, y0 |-> y0, err |-> Abs(x1 - x0) - Abs(y1 - y0),
     cells |-> << >>, done |-> FALSE]

\* Mutants of bresenhamIterate: the break is tested before the callback is
\* called; the callback is called once more on the way out.
bresenhamIterateBreakFirst(c) ==
    IF c.x0 = c.to[1] /\ c.y0 = c.to[2]
    THEN [c EXCEPT !.done = TRUE]
    ELSE LET n == bresenhamStep(c.x0, c.y0, c.dx, c.dy, c.sx, c.sy, c.err)
         IN [c EXCEPT !.cells = Append(c.cells, <<c.x0, c.y0>>),
                      !.x0 = n.x0, !.y0 = n.y0, !.err = n.err]
bresenhamIterateCallTwice(c) ==
    LET emitted == Append(c.cells, <<c.x0, c.y0>>)
    IN IF c.x0 = c.to[1] /\ c.y0 = c.to[2]
       THEN [c EXCEPT !.cells = Append(emitted, <<c.x0, c.y0>>), !.done = TRUE]
       ELSE LET n == bresenhamStep(c.x0, c.y0, c.dx, c.dy, c.sx, c.sy, c.err)
            IN [c EXCEPT !.cells = emitted, !.x0 = n.x0, !.y0 = n.y0, !.err = n.err]

bresenhamIterate(c) ==
    LET emitted == Append(c.cells, <<c.x0, c.y0>>)
    IN IF c.x0 = c.to[1] /\ c.y0 = c.to[2]
       THEN [c EXCEPT !.cells = emitted, !.done = TRUE]
       ELSE LET n == bresenhamStep(c.x0, c.y0, c.dx, c.dy, c.sx, c.sy, c.err)
            IN [c EXCEPT !.cells = emitted, !.x0 = n.x0, !.y0 = n.y0, !.err = n.err]

(***************************************************************************)
(* The callback the two mousemove listeners pass to bresenhamLine, folded  *)
(* over the line from cell k on.  A TypeError ends the fold with the cells *)
(* painted so far kept.                                                    *)
(***************************************************************************)
RECURSIVE paintLine(_, _, _, _, _)
paintLine(line, k, g, gs, state) ==
    IF k > Len(line) THEN [grid |-> g, threw |-> FALSE, hasChanges |-> FALSE, extended |-> FALSE]
    ELSE LET x == line[k][1]
             y == line[k][2]
         IN IF x >= 0 /\ x < gs /\ y >= 0 /\ y < gs
            THEN IF ReadThrows(g, y)
                 THEN [grid |-> g, threw |-> TRUE, hasChanges |-> FALSE, extended |-> FALSE]
                 ELSE IF ReadCell(g, y, x) # state
                      THEN LET rest == paintLine(line, k + 1, updatePixel(g, y, x, state).grid, gs, state)
                           IN [rest EXCEPT !.hasChanges = TRUE,
                                           !.extended = rest.extended \/ x >= Len(g[y + 1])]
                      ELSE paintLine(line, k + 1, g, gs, state)
            ELSE paintLine(line, k + 1, g, gs, state)

(***************************************************************************)
(* generateHash.  The text of JSON.stringify is a sequence of characters.  *)
(* The loop keeps hash a 32-bit integer: (hash << 5) wraps to 32 bits and  *)
(* hash & hash wraps the sum, so each round leaves 31 * hash + char modulo *)
(* 2^32.  The 32 bits are kept as two 16-bit halves.                       *)
(***************************************************************************)
charCodeAt(ch) ==
    CASE ch = "[" -> 91 [] ch = "]" -> 93 [] ch = "\"" -> 34 [] ch = "," -> 44 [] ch = "-" -> 45
      [] ch = "a" -> 97 [] ch = "b" -> 98 [] ch = "c" -> 99 [] ch = "e" -> 101
      [] ch = "f" -> 102 [] ch = "g" -> 103 [] ch = "h" -> 104 [] ch = "i" -> 105
      [] ch = "k" -> 107 [] ch = "l" -> 108 [] ch = "m" -> 109 [] ch = "n" -> 110
      [] ch = "o" -> 111 [] ch = "p" -> 112 [] ch = "r" -> 114 [] ch = "t" -> 116
      [] ch = "u" -> 117

\* JSON.stringify of one cell: the quoted state, null for undefined or a hole.
cellText(pixel) ==
    CASE pixel = "clear" -> <<"\"", "c", "l", "e", "a", "r", "\"">>
      [] pixel = "black" -> <<"\"", "b", "l", "a", "c", "k", "\"">>
      [] pixel = "top-left" -> <<"\"", "t", "o", "p", "-", "l", "e", "f", "t", "\"">>
      [] pixel = "top-right" -> <<"\"", "t", "o", "p", "-", "r", "i", "g", "h", "t", "\"">>
      [] pixel = "bottom-left" ->
            <<"\"", "b", "o", "t", "t", "o", "m", "-", "l", "e", "f", "t", "\"">>
      [] pixel = "bottom-right" ->
            <<"\"", "b", "o", "t", "t", "o", "m", "-", "r", "i", "g", "h", "t", "\"">>
      [] OTHER -> <<"n", "u", "l", "l">>

RECURSIVE commaJoin(_)
commaJoin(parts) ==
    IF parts = << >> THEN << >>
    ELSE IF Len(parts) = 1 THEN parts[1]
    ELSE parts[1] \o <<",">> \o commaJoin(Tail(parts))

\* JSON.stringify(grid), character by character.
JSONtext(g) ==
    <<"[">> \o commaJoin([i \in 1..Len(g) |->
                 <<"[">> \o commaJoin([j \in 1..Len(g[i]) |-> cellText(g[i][j])]) \o <<"]">>])
           \o <<"]">>

\* One round of the loop: hash = ((hash << 5) - hash) + char; hash = hash & hash.
hashRound(h, char) ==
    LET lo == 31 * h.lo + char
        hi == 31 * h.hi + lo \div 65536
    IN [hi |-> hi % 65536, lo |-> lo % 65536]

RECURSIVE hashLoop(_, _, _)
hashLoop(str, i, h) ==
    IF i > Len(str) THEN h
    ELSE LET next == hashRound(h, charCodeAt(str[i]))
         IN IF next.lo >= 0 THEN hashLoop(str, i + 1, next) ELSE next  \* always the first

\* Math.abs of the 32-bit integer: the two's complement of a negative one.
mathAbs(h) ==
    IF h.hi >= 32768
    THEN [hi |-> (65535 - h.hi + (IF h.lo = 0 THEN 1 ELSE 0)) % 65536,
          lo |-> (65536 - h.lo) % 65536]
    ELSE h

HexDigits == <<"0", "1", "2", "3", "4", "5", "6", "7", "8", "9", "a", "b", "c", "d", "e", "f">>

\* Number.prototype.toString(16): no leading zeros.
toString16(h) ==
    LET digits == <<h.hi \div 4096, (h.hi \div 256) % 16, (h.hi \div 16) % 16, h.hi % 16,
                    h.lo \div 4096, (h.lo \div 256) % 16, (h.lo \div 16) % 16, h.lo % 16>>
        nonZero == {k \in 1..8 : digits[k] # 0}
        first == IF nonZero = {} THEN 8 ELSE CHOOSE k \in nonZero : \A m \in nonZero : k <= m
    IN [k \in 1..(9 - first) |-> HexDigits[digits[first + k - 1] + 1]]

generateHash(content) ==
    LET hex == toString16(mathAbs(hashLoop(JSONtext(content), 1, [hi |-> 0, lo |-> 0])))
    IN SubSeq(hex, 1, Min(8, Len(hex)))

(***************************************************************************)
(* History.                                                                *)
(***************************************************************************)
\* Mutants of sliceLast: no eviction; eviction from the back.
sliceNothing(h, n) == h
sliceFirst(h, n) == IF Len(h) > n THEN SubSeq(h, 1, n) ELSE h

\* Array.prototype.slice(-n): the last n elements.
sliceLast(h, n) == IF Len(h) > n THEN SubSeq(h, Len(h) - n + 1, Len(h)) ELSE h

\* Mutants of saveToHistory: the redo entries are kept; the comparison is dropped.
saveKeepingRedo(s) ==
    IF s.historyIndex < 0 \/ JSONstringify(s.grid) # JSONstringify(s.history[s.historyIndex + 1])
    THEN [s EXCEPT !.history = Append(s.history, s.grid),
                   !.historyIndex = s.historyIndex + 1, !.pushed = s.pushed + 1]
    ELSE s
saveAlways(s) ==
    [s EXCEPT !.history = Append(SubSeq(s.history, 1, s.historyIndex + 1), s.grid),
              !.historyIndex = s.historyIndex + 1, !.pushed = s.pushed + 1]

saveToHistory(s) ==
    LET differs == IF s.historyIndex >= 0
                   THEN JSONstringify(s.grid) # JSONstringify(s.history[s.historyIndex + 1])
                   ELSE TRUE
        appended == Append(SubSeq(s.history, 1, s.historyIndex + 1), s.grid)
        kept == sliceLast(appended, HISTORY_LIMIT)
    IN IF differs
       THEN IF Len(appended) > HISTORY_LIMIT
            THEN [s EXCEPT !.history = kept, !.historyIndex = Len(kept) - 1,
                           !.pushed = s.pushed + 1]
            ELSE [s EXCEPT !.history = appended, !.historyIndex = s.historyIndex + 1,
                           !.pushed = s.pushed + 1]
       ELSE s

\* GridManager.setGrid: a copy of the rows becomes the grid of the manager and of the App.
setGrid(s, newGrid) == [s EXCEPT !.grid = newGrid]

\* Mutants of undo: the guard admits index 0, where history[-1].map raises a
\* TypeError after the decrement; the grid is not restored.
undoOffByOne(s) ==
    IF s.historyIndex > 0
    THEN [s EXCEPT !.historyIndex = s.historyIndex - 1, !.grid = s.history[s.historyIndex]]
    ELSE IF s.historyIndex = 0
    THEN [s EXCEPT !.historyIndex = -1, !.fault = "TypeError"]
    ELSE s
undoKeepingGrid(s) ==
    IF s.historyIndex > 0 THEN [s EXCEPT !.historyIndex = s.historyIndex - 1] ELSE s

undo(s) ==
    IF s.historyIndex > 0
    THEN setGrid([s EXCEPT !.historyIndex = s.historyIndex - 1], s.history[s.historyIndex])
    ELSE s

\* Mutant of redo: the grid is restored from the entry at the old index.
redoStaleIndex(s) ==
    IF s.historyIndex < Len(s.history) - 1
    THEN [s EXCEPT !.historyIndex = s.historyIndex + 1, !.grid = s.history[s.historyIndex + 1]]
    ELSE s

redo(s) ==
    IF s.historyIndex < Len(s.history) - 1
    THEN setGrid([s EXCEPT !.historyIndex = s.historyIndex + 1], s.history[s.historyIndex + 2])
    ELSE s

updatePixelSize(s) == [s EXCEPT !.pixelSize = (WindowHeight - 100) \div s.gridSize]

(***************************************************************************)
(* The geometry resolver.  x and y are the pointer's integer offsets in    *)
(* the canvas; cellX + cellY < 0.5 with cellX = (x % p) / p is computed    *)
(* exactly as 2 * (x % p + y % p) < p.                                     *)
(***************************************************************************)
\* Mutant of getMousePosition: the first test is cellX + cellY < 1, which
\* overlaps the top-right and bottom-left conditions.
getMousePositionWideCorner(x, y, ps, gs) ==
    LET col == x \div ps
        row == y \div ps
        mx == x % ps
        my == y % ps
        region == IF mx + my < ps THEN "top-left"
                  ELSE IF 2 * (mx + my) > 3 * ps THEN "bottom-right"
                  ELSE IF 2 * (mx - my) > ps THEN "top-right"
                  ELSE IF 2 * (my - mx) > ps THEN "bottom-left"
                  ELSE "center"
    IN IF col < 0 \/ col >= gs \/ row < 0 \/ row >= gs
       THEN Null
       ELSE Some([row |-> row, col |-> col, region |-> region])

\* Mutant of getMousePosition: the third test is >= where the code has >.
getMousePositionTieToCorner(x, y, ps, gs) ==
    LET col == x \div ps
        row == y \div ps
        mx == x % ps
        my == y % ps
        region == IF 2 * (mx + my) < ps THEN "top-left"
                  ELSE IF 2 * (mx + my) > 3 * ps THEN "bottom-right"
                  ELSE IF 2 * (mx - my) >= ps THEN "top-right"
                  ELSE IF 2 * (my - mx) > ps THEN "bottom-left"
                  ELSE "center"
    IN IF col < 0 \/ col >= gs \/ row < 0 \/ row >= gs
       THEN Null
       ELSE Some([row |-> row, col |-> col, region |-> region])

\* Mutant of getMousePosition: the upper range test is > where the code has >=.
getMousePositionInclusive(x, y, ps, gs) ==
    LET col == x \div ps
        row == y \div ps
        mx == x % ps
        my == y % ps
        region == IF 2 * (mx + my) < ps THEN "top-left"
                  ELSE IF 2 * (mx + my) > 3 * ps THEN "bottom-right"
                  ELSE IF 2 * (mx - my) > ps THEN "top-right"
                  ELSE IF 2 * (my - mx) > ps THEN "bottom-left"
                  ELSE "center"
    IN IF col < 0 \/ col > gs \/ row < 0 \/ row > gs
       THEN Null
       ELSE Some([row |-> row, col |-> col, region |-> region])

getMousePosition(x, y, ps, gs) ==
    LET col == x \div ps
        row == y \div ps
        mx == x % ps
        my == y % ps
        region == IF 2 * (mx + my) < ps THEN "top-left"
                  ELSE IF 2 * (mx + my) > 3 * ps THEN "bottom-right"
                  ELSE IF 2 * (mx - my) > ps THEN "top-right"
                  ELSE IF 2 * (my - mx) > ps THEN "bottom-left"
                  ELSE "center"
    IN IF col < 0 \/ col >= gs \/ row < 0 \/ row >= gs
       THEN Null
       ELSE Some([row |-> row, col |-> col, region |-> region])

(***************************************************************************)
(* Pointer handlers.                                                       *)
(***************************************************************************)
handleMouseDown(s, x, y) ==
    LET p == getMousePosition(x, y, s.pixelSize, s.gridSize)
    IN IF p = Null THEN s
       ELSE LET pos == p[1]
                s1 == [s EXCEPT !.isDrawing = TRUE, !.hoverRegion = pos.region,
                                !.previousPosition = p, !.hoverPosition = p]
                state == IF pos.region = "center" THEN "black" ELSE pos.region
            IN IF ReadThrows(s.grid, pos.row)
               THEN [s1 EXCEPT !.fault = "TypeError"]
               ELSE IF ReadCell(s.grid, pos.row, pos.col) # state
                    THEN saveToHistory(
                           [s1 EXCEPT !.grid = updatePixel(s.grid, pos.row, pos.col, state).grid,
                                      !.fault = IF pos.col >= Len(s.grid[pos.row + 1])
                                                THEN "extend" ELSE "none"])
                    ELSE s1

handleMouseMove(s, x, y) ==
    LET p == getMousePosition(x, y, s.pixelSize, s.gridSize)
    IN IF p = Null THEN s
       ELSE IF s.isDrawing /\ s.previousPosition # Null
       THEN LET pos == p[1]
                prev == s.previousPosition[1]
                region == IF s.hoverRegion # "null" THEN s.hoverRegion ELSE pos.region
                state == IF s.hoverRegion = "center" THEN "black" ELSE region
                s1 == [s EXCEPT !.hoverPosition = Some([pos EXCEPT !.region = region])]
                r == paintLine(bresenhamLine(prev.col, prev.row, pos.col, pos.row),
                               1, s.grid, s.gridSize, state)
                s2 == [s1 EXCEPT !.grid = r.grid,
                                 !.fault = IF r.extended THEN "extend" ELSE "none"]
            IN IF r.threw
               THEN [s1 EXCEPT !.grid = r.grid, !.fault = "TypeError"]
               ELSE [(IF r.hasChanges THEN saveToHistory(s2) ELSE s2)
                        EXCEPT !.previousPosition = p]
       ELSE [s EXCEPT !.hoverPosition = p]

\* The worse of the faults of two listeners of one event.
Worse(f1, f2) ==
    IF f1 = "TypeError" \/ f2 = "TypeError" THEN "TypeError"
    ELSE IF f1 # "none" THEN f1 ELSE f2

\* The document's mousemove listener, which runs after the canvas's.
documentMouseMove(s) ==
    IF s.isDrawing /\ s.keyboardPosition # Null /\ s.hoverPosition # Null
    THEN LET kp == s.keyboardPosition[1]
             hp == s.hoverPosition[1]
             r == paintLine(bresenhamLine(kp.col, kp.row, hp.col, hp.row),
                            1, s.grid, s.gridSize, s.drawingMode)
             s2 == [s EXCEPT !.grid = r.grid,
                             !.fault = Worse(s.fault, IF r.extended THEN "extend" ELSE "none")]
         IN IF r.threw
            THEN [s EXCEPT !.grid = r.grid, !.fault = "TypeError"]
            ELSE [(IF r.hasChanges THEN saveToHistory(s2) ELSE s2)
                     EXCEPT !.keyboardPosition = Some([row |-> hp.row, col |-> hp.col])]
    ELSE s

\* The comparison handleMouseUp makes before saveToHistory is the one
\* saveToHistory makes itself.
handleMouseUp(s) ==
    LET s1 == IF s.isDrawing THEN saveToHistory(s) ELSE s
    IN [s1 EXCEPT !.isDrawing = FALSE, !.previousPosition = Null]

handleMouseLeave(s) == [s EXCEPT !.hoverPosition = Null]

(***************************************************************************)
(* Whole-grid operations.                                                  *)
(***************************************************************************)
\* Mutant of invertPixel: bottom-right maps to top-right.
invertPixelWrongCorner(pixel) ==
    IF pixel = "clear" THEN "black"
    ELSE IF pixel = "black" THEN "clear"
    ELSE IF pixel = "top-left" THEN "bottom-right"
    ELSE IF pixel = "top-right" THEN "bottom-left"
    ELSE IF pixel = "bottom-left" THEN "top-right"
    ELSE IF pixel = "bottom-right" THEN "top-right"
    ELSE Undefined

invertPixel(pixel) ==
    IF pixel = "clear" THEN "black"
    ELSE IF pixel = "black" THEN "clear"
    ELSE IF pixel = "top-left" THEN "bottom-right"
    ELSE IF pixel = "top-right" THEN "bottom-left"
    ELSE IF pixel = "bottom-left" THEN "top-right"
    ELSE IF pixel = "bottom-right" THEN "top-left"
    ELSE Undefined

invertPixels(s) ==
    LET newGrid == [i \in 1..Len(s.grid) |->
                       [j \in 1..Len(s.grid[i]) |-> invertPixel(s.grid[i][j])]]
    IN IF JSONstringify(s.grid) # JSONstringify(newGrid)
       THEN saveToHistory(setGrid(s, newGrid))
       ELSE s

Directions == {"up", "down", "left", "right"}

sourceRow(direction, i, gs) ==
    IF direction = "up" THEN (i + 1) % gs
    ELSE IF direction = "down" THEN (i - 1 + gs) % gs
    ELSE i

sourceCol(direction, j, gs) ==
    IF direction = "left" THEN (j + 1) % gs
    ELSE IF direction = "right" THEN (j - 1 + gs) % gs
    ELSE j

\* this.grid[sourceRow][sourceCol] raises a TypeError at the first missing source
\* row, before setGrid is reached; a source column past the end of its row reads
\* undefined.
shiftGrid(s, direction) ==
    LET gs == s.gridSize
        missingRow == \E i \in 0..(gs - 1) : ReadThrows(s.grid, sourceRow(direction, i, gs))
        newGrid == [i \in 1..gs |-> [j \in 1..gs |->
                       ReadCell(s.grid, sourceRow(direction, i - 1, gs),
                                        sourceCol(direction, j - 1, gs))]]
        pastEnd == \E i \in 0..(gs - 1), j \in 0..(gs - 1) :
                       sourceCol(direction, j, gs) >= Len(s.grid[sourceRow(direction, i, gs) + 1])
    IN IF missingRow
       THEN [s EXCEPT !.fault = "TypeError"]
       ELSE saveToHistory(setGrid([s EXCEPT !.fault = IF pastEnd THEN "readUndefined" ELSE "none"],
                                  newGrid))

\* Mutant of resizeGrid: the copy loops stop one short of size.
resizeGridShortCopy(s, newSize) ==
    IF newSize < 1 THEN s
    ELSE LET oldGrid == s.grid
             newGrid == [i \in 1..newSize |-> [j \in 1..newSize |->
                            IF i <= Min(newSize - 1, Len(oldGrid)) /\ j <= Min(newSize - 1, Len(oldGrid[i]))
                            THEN oldGrid[i][j] ELSE "clear"]]
         IN saveToHistory(updatePixelSize(setGrid([s EXCEPT !.gridSize = newSize], newGrid)))

resizeGrid(s, newSize) ==
    IF newSize < 1 THEN s
    ELSE LET oldGrid == s.grid
             newGrid == [i \in 1..newSize |-> [j \in 1..newSize |->
                            IF i <= Min(newSize, Len(oldGrid)) /\ j <= Min(newSize, Len(oldGrid[i]))
                            THEN oldGrid[i][j] ELSE "clear"]]
         IN saveToHistory(updatePixelSize(setGrid([s EXCEPT !.gridSize = newSize], newGrid)))

makeGridBigger(s) == resizeGrid(s, s.gridSize + 1)
makeGridSmaller(s) == resizeGrid(s, s.gridSize - 1)

(***************************************************************************)
(* Keyboard listeners.  A key event is [key, ctrl, shift]; ctrl stands for *)
(* e.ctrlKey || e.metaKey.                                                 *)
(***************************************************************************)
PaintKeys == {"z", "x", "q", "w", "a", "s"}

keyMode(key) ==
    IF key = "z" THEN "black"
    ELSE IF key = "x" THEN "clear"
    ELSE IF key = "q" THEN "bottom-right"
    ELSE IF key = "w" THEN "bottom-left"
    ELSE IF key = "a" THEN "top-right"
    ELSE IF key = "s" THEN "top-left"
    ELSE "null"

keydownPaint(s, mode) ==
    LET s1 == [s EXCEPT !.isDrawing = TRUE, !.drawingMode = mode, !.hoverRegion = mode]
    IN IF s.hoverPosition # Null
       THEN LET hp == s.hoverPosition[1]
            IN IF ReadThrows(s.grid, hp.row)
               THEN [s1 EXCEPT !.fault = "TypeError"]
               ELSE IF ReadCell(s.grid, hp.row, hp.col) # mode
                    THEN saveToHistory(
                           [s1 EXCEPT !.keyboardPosition = Some([row |-> hp.row, col |-> hp.col]),
                                      !.grid = updatePixel(s.grid, hp.row, hp.col, mode).grid,
                                      !.fault = IF hp.col >= Len(s.grid[hp.row + 1])
                                                THEN "extend" ELSE "none"])
                    ELSE s1
       ELSE s1

keydown(s, e) ==
    IF e.key = "z" /\ e.ctrl THEN (IF e.shift THEN redo(s) ELSE undo(s))
    ELSE IF e.key = "arrowup" THEN shiftGrid(s, "up")
    ELSE IF e.key = "arrowdown" THEN shiftGrid(s, "down")
    ELSE IF e.key = "arrowleft" THEN shiftGrid(s, "left")
    ELSE IF e.key = "arrowright" THEN shiftGrid(s, "right")
    ELSE IF e.key = "y" /\ e.ctrl THEN redo(s)
    ELSE IF e.key = "i" THEN invertPixels(s)
    ELSE IF keyMode(e.key) # "null" THEN keydownPaint(s, keyMode(e.key))
    ELSE s

keyup(s, e) ==
    IF e.key \in PaintKeys
    THEN [(IF s.isDrawing THEN saveToHistory(s) ELSE s)
             EXCEPT !.isDrawing = FALSE, !.keyboardPosition = Null]
    ELSE s

(***************************************************************************)
(* The structured-data loader.  A dropped file is what JSON.parse makes of *)
(* it: parses (or a SyntaxError), version, data (version 2) and grid       *)
(* (version 1), each Null when the file does not carry it.  Every error    *)
(* raised in reader.onload is caught there: the SyntaxError, the two       *)
(* Errors thrown and the TypeError of a missing data or grid.              *)
(***************************************************************************)
IsPerfectSquare(n) == \E k \in 0..n : k * k = n
sqrtInt(n) == CHOOSE k \in 0..n : k * k = n

\* Mutant of decodeChar: the case of 'q' is missing.
decodeCharMissingCase(char) ==
    IF char = "s" THEN "top-left"
    ELSE IF char = "a" THEN "top-right"
    ELSE IF char = "w" THEN "bottom-left"
    ELSE IF char = "z" THEN "black"
    ELSE "clear"

decodeChar(char) ==
    IF char = "s" THEN "top-left"
    ELSE IF char = "a" THEN "top-right"
    ELSE IF char = "w" THEN "bottom-left"
    ELSE IF char = "q" THEN "bottom-right"
    ELSE IF char = "z" THEN "black"
    ELSE "clear"

\* Lines 599-604: the tail shared by both versions.
acceptLoad(s, loadedGrid, newSize) ==
    setGrid(IF newSize > 0 THEN updatePixelSize([s EXCEPT !.gridSize = newSize]) ELSE s,
            loadedGrid)

\* Mutant of readerOnLoad: a data length that is not a perfect square is
\* rounded down to one instead of being rejected.
floorSqrt(n) == CHOOSE k \in 0..n : k * k <= n /\ (k + 1) * (k + 1) > n
readerOnLoadRounding(s, f) ==
    IF ~f.parses THEN s
    ELSE IF f.version = Some(1)
    THEN IF f.grid = Null THEN s
         ELSE acceptLoad(s, f.grid[1], Len(f.grid[1]))
    ELSE IF f.version = Some(2)
    THEN IF f.data = Null THEN s
         ELSE LET data == f.data[1]
                  size == floorSqrt(Len(data))
                  loadedGrid == [i \in 1..size |-> [j \in 1..size |->
                                    decodeChar(data[(i - 1) * size + j])]]
              IN acceptLoad(s, loadedGrid, size)
    ELSE s

\* Mutant of readerOnLoad: a read that completes while another read is still
\* pending is discarded.
readerOnLoadWhenAlone(s, f) ==
    IF s.pendingReads # {} THEN s
    ELSE IF ~f.parses THEN s
    ELSE IF f.version = Some(1)
    THEN IF f.grid = Null THEN s
         ELSE acceptLoad(s, f.grid[1], Len(f.grid[1]))
    ELSE IF f.version = Some(2)
    THEN IF f.data = Null THEN s
         ELSE LET data == f.data[1]
                  dataLength == Len(data)
              IN IF ~IsPerfectSquare(dataLength) THEN s
                 ELSE LET size == sqrtInt(dataLength)
                          loadedGrid == [i \in 1..size |-> [j \in 1..size |->
                                            decodeChar(data[(i - 1) * size + j])]]
                      IN acceptLoad(s, loadedGrid, size)
    ELSE s

readerOnLoad(s, f) ==
    IF ~f.parses THEN s
    ELSE IF f.version = Some(1)
    THEN IF f.grid = Null THEN s
         ELSE acceptLoad(s, f.grid[1], Len(f.grid[1]))
    ELSE IF f.version = Some(2)
    THEN IF f.data = Null THEN s
         ELSE LET data == f.data[1]
                  dataLength == Len(data)
              IN IF ~IsPerfectSquare(dataLength) THEN s
                 ELSE LET size == sqrtInt(dataLength)
                          loadedGrid == [i \in 1..size |-> [j \in 1..size |->
                                            decodeChar(data[(i - 1) * size + j])]]
                      IN acceptLoad(s, loadedGrid, size)
    ELSE s

(***************************************************************************)
(* exportAsJSON.  A string is the sequence of its characters; join('')     *)
(* concatenates, and prints an undefined element as the empty string.  The *)
(* file saved is what JSON.parse makes of it again.  Its name is modelled  *)
(* with the names of the other exported files, further down.               *)
(***************************************************************************)
\* Mutant of encodeChar: the codes of top-right and bottom-left are exchanged.
encodeCharSwapped(pixel) ==
    IF pixel = "top-left" THEN <<"s">>
    ELSE IF pixel = "top-right" THEN <<"w">>
    ELSE IF pixel = "bottom-left" THEN <<"a">>
    ELSE IF pixel = "bottom-right" THEN <<"q">>
    ELSE IF pixel = "black" THEN <<"z">>
    ELSE IF pixel = "clear" THEN <<"x">>
    ELSE << >>

encodeChar(pixel) ==
    IF pixel = "top-left" THEN <<"s">>
    ELSE IF pixel = "top-right" THEN <<"a">>
    ELSE IF pixel = "bottom-left" THEN <<"w">>
    ELSE IF pixel = "bottom-right" THEN <<"q">>
    ELSE IF pixel = "black" THEN <<"z">>
    ELSE IF pixel = "clear" THEN <<"x">>
    ELSE << >>

RECURSIVE join(_)
join(strings) == IF strings = << >> THEN << >> ELSE Head(strings) \o join(Tail(strings))

exportAsJSON(s) ==
    LET data == join([i \in 1..Len(s.grid) |->
                        join([j \in 1..Len(s.grid[i]) |-> encodeChar(s.grid[i][j])])])
    IN [parses |-> TRUE, version |-> Some(2), data |-> Some(data), grid |-> Null]

handleFileDrop(s, f) == [s EXCEPT !.pendingReads = s.pendingReads \cup {f}]

(***************************************************************************)
(* The image branch of handleFileDrop.  A dropped image is read by a       *)
(* FileReader ("reading"), then decoded by an Image ("decoding"); when the *)
(* Image has loaded it becomes the backdrop.                               *)
(***************************************************************************)
handleImageDrop(s, img) ==
    [s EXCEPT !.pendingImages = s.pendingImages \cup {[image |-> img, stage |-> "reading"]}]

imageReaderOnLoad(s, img) ==
    [s EXCEPT !.pendingImages = (s.pendingImages \ {[image |-> img, stage |-> "reading"]})
                                   \cup {[image |-> img, stage |-> "decoding"]}]

\* Mutant of imageOnLoad: the grid is emptied under the new backdrop.
imageOnLoadClearsGrid(s, img) ==
    setGrid([s EXCEPT !.backgroundImage = Some(img),
                      !.pendingImages = s.pendingImages \ {[image |-> img, stage |-> "decoding"]}],
            createEmptyGrid(s.gridSize))

imageOnLoad(s, img) ==
    [s EXCEPT !.backgroundImage = Some(img),
              !.pendingImages = s.pendingImages \ {[image |-> img, stage |-> "decoding"]}]

clearBackground(s) == [s EXCEPT !.backgroundImage = Null]

(***************************************************************************)
(* The names of the exported files.  d is the downloads: the files handed  *)
(* to saveAs and those canvas.toBlob has yet to encode.  A file is its     *)
(* name `${hash}.${ext}`, the grid it was made from, the export click that *)
(* made it and the history index at that click.                            *)
(***************************************************************************)
ExportedFile(hash, ext, s, d) ==
    [stem |-> hash, ext |-> ext, grid |-> s.grid, click |-> d.clicks, index |-> s.historyIndex]

exportAsPNG(d, s) ==
    LET hash == generateHash(s.grid)
    IN [d EXCEPT !.encoding = Append(d.encoding, ExportedFile(hash, "png", s, d))]

\* The callback of exportCanvas.toBlob for the k-th canvas being encoded.
toBlobCallback(d, k) ==
    [d EXCEPT !.encoding = SubSeq(d.encoding, 1, k - 1) \o SubSeq(d.encoding, k + 1, Len(d.encoding)),
              !.saved = Append(d.saved, d.encoding[k])]

\* Mutant of exportAsSVG: the hash is taken of the first history entry.
exportAsSVGOfFirstEntry(d, s) ==
    LET hash == generateHash(s.history[1])
    IN [d EXCEPT !.saved = Append(d.saved, ExportedFile(hash, "svg", s, d))]

exportAsSVG(d, s) ==
    LET hash == generateHash(s.grid)
    IN [d EXCEPT !.saved = Append(d.saved, ExportedFile(hash, "svg", s, d))]

\* The saveAs of exportAsJSON.
exportAsJSONName(d, s) ==
    LET hash == generateHash(s.grid)
    IN [d EXCEPT !.saved = Append(d.saved, ExportedFile(hash, "json", s, d))]

exportAll(d, s) == exportAsJSONName(exportAsSVG(exportAsPNG(d, s), s), s)

(***************************************************************************)
(* Inputs.                                                                 *)
(***************************************************************************)
JsonFile(version, data, g) == [parses |-> TRUE, version |-> version, data |-> data, grid |-> g]

\* A file that is not JSON.
Unparseable == [parses |-> FALSE, version |-> Null, data |-> Null, grid |-> Null]

JsonFiles ==
    { JsonFile(Some(2), Some(<< >>), Null),
      JsonFile(Some(2), Some(<<"z", "s", "q", "x">>), Null),
      JsonFile(Some(2), Some(<<"z", "x", "s">>), Null),
      JsonFile(Some(1), Null, Some(<< <<"black", "clear">>, <<"clear">> >>)),
      JsonFile(Null, Some(<<"z">>), Null),
      JsonFile(Some(3), Some(<<"z">>), Null),
      Unparseable }

\* Dropped image files.
ImageFiles == {"a.png", "b.png"}

KeyEvent(key, ctrl, shift) == [key |-> key, ctrl |-> ctrl, shift |-> shift]

KeyDownEvents ==
    { KeyEvent(k, FALSE, FALSE) : k \in PaintKeys \cup {"arrowup", "arrowdown", "arrowleft", "arrowright", "i"} }
    \cup { KeyEvent("z", TRUE, FALSE), KeyEvent("z", TRUE, TRUE), KeyEvent("y", TRUE, FALSE) }

\* A paint key and a key that is none.
KeyUpEvents == { KeyEvent("z", FALSE, FALSE), KeyEvent("i", FALSE, FALSE) }

\* Sample offsets of the pointer inside a cell of ps pixels: a corner and the middle.
CellOffsets(ps) == { <<1, 1>>, <<ps \div 2, ps \div 2>> }

\* Pointer positions over the canvas, which is gridSize * pixelSize pixels wide:
\* the sample offsets in each of the canvas's four corner cells.
PointerSamples ==
    { <<c * pixelSize + o[1], r * pixelSize + o[2]>> :
        r \in {0, gridSize - 1}, c \in {0, gridSize - 1}, o \in CellOffsets(pixelSize) }

(***************************************************************************)
(* The state machine.                                                      *)
(***************************************************************************)
App ==
    [gridSize |-> gridSize, pixelSize |-> pixelSize, grid |-> grid,
     history |-> history, historyIndex |-> historyIndex,
     isDrawing |-> isDrawing, hoverRegion |-> hoverRegion, drawingMode |-> drawingMode,
     previousPosition |-> previousPosition, hoverPosition |-> hoverPosition,
     keyboardPosition |-> keyboardPosition, pendingReads |-> pendingReads,
     backgroundImage |-> backgroundImage, pendingImages |-> pendingImages,
     fault |-> "none", pushed |-> 0]

constructor ==
    saveToHistory(updatePixelSize(
        [gridSize |-> DEFAULT_GRID_SIZE, pixelSize |-> 32,
         grid |-> createEmptyGrid(DEFAULT_GRID_SIZE),
         history |-> << >>, historyIndex |-> -1,
         isDrawing |-> FALSE, hoverRegion |-> "null", drawingMode |-> "black",
         previousPosition |-> Null, hoverPosition |-> Null,
         keyboardPosition |-> Null, pendingReads |-> {},
         backgroundImage |-> Null, pendingImages |-> {},
         fault |-> "none", pushed |-> 0]))

(***************************************************************************)
(* The same grid store and history with the row arrays as objects.  A heap *)
(* h holds the row arrays by address (h.rows), and App.grid,               *)
(* GridManager.grid and the history entries as sequences of row addresses; *)
(* no outer array is ever written in place, so these are kept by value.    *)
(* An address is never reused.  h.trace lists the operations applied.      *)
(***************************************************************************)
Deref(rows, g) == [i \in 1..Len(g) |-> rows[g[i]]]

\* Mutant of copyGrid: [...g], a new outer array holding the same row arrays.
copyGridShallow(rows, g) == [rows |-> rows, grid |-> g]

\* g.map(row => [...row]): a new array of new row arrays.
copyGrid(rows, g) ==
    [rows |-> rows \o Deref(rows, g), grid |-> [i \in 1..Len(g) |-> Len(rows) + i]]

\* A grid built afresh with contents v (createEmptyGrid, map, JSON.parse).
allocGrid(rows, v) ==
    [rows |-> rows \o v, grid |-> [i \in 1..Len(v) |-> Len(rows) + i]]

heapUpdatePixel(h, row, col, state) ==
    LET newGrid == copyGrid(h.rows, h.gmGrid)
    IN IF row < 0 \/ row >= Len(newGrid.grid) THEN h
       ELSE LET a == newGrid.grid[row + 1]
            IN [h EXCEPT !.rows = [newGrid.rows EXCEPT ![a] = AssignCell(newGrid.rows[a], col, state)],
                         !.gmGrid = newGrid.grid, !.grid = newGrid.grid]

heapSetGrid(h, g) ==
    LET c == copyGrid(h.rows, g)
    IN [h EXCEPT !.rows = c.rows, !.gmGrid = c.grid, !.grid = c.grid]

heapSaveToHistory(h) ==
    LET differs == IF h.historyIndex >= 0
                   THEN JSONstringify(Deref(h.rows, h.grid))
                           # JSONstringify(Deref(h.rows, h.history[h.historyIndex + 1]))
                   ELSE TRUE
        c == copyGrid(h.rows, h.grid)
        appended == Append(SubSeq(h.history, 1, h.historyIndex + 1), c.grid)
        kept == sliceLast(appended, HISTORY_LIMIT)
    IN IF differs
       THEN IF Len(appended) > HISTORY_LIMIT
            THEN [h EXCEPT !.rows = c.rows, !.history = kept, !.historyIndex = Len(kept) - 1]
            ELSE [h EXCEPT !.rows = c.rows, !.history = appended,
                           !.historyIndex = h.historyIndex + 1]
       ELSE h

heapUndo(h) ==
    IF h.historyIndex > 0
    THEN LET c == copyGrid(h.rows, h.history[h.historyIndex])
         IN heapSetGrid([h EXCEPT !.rows = c.rows, !.grid = c.grid,
                                  !.historyIndex = h.historyIndex - 1], c.grid)
    ELSE h

heapRedo(h) ==
    IF h.historyIndex < Len(h.history) - 1
    THEN LET c == copyGrid(h.rows, h.history[h.historyIndex + 2])
         IN heapSetGrid([h EXCEPT !.rows = c.rows, !.grid = c.grid,
                                  !.historyIndex = h.historyIndex + 1], c.grid)
    ELSE h

\* The constructor, with g for createEmptyGrid(gridSize): App.grid and
\* GridManager.grid are one array, and saveToHistory pushes the first entry.
heapConstructor(g) ==
    heapSaveToHistory(
        [rows |-> g, grid |-> [i \in 1..Len(g) |-> i], gmGrid |-> [i \in 1..Len(g) |-> i],
         history |-> << >>, historyIndex |-> -1, gridSize |-> Len(g), trace |-> << >>])

\* The App a heap stands for, every array read through its addresses.
heapApp(h) ==
    [constructor EXCEPT !.gridSize = h.gridSize,
                        !.grid = Deref(h.rows, h.grid),
                        !.history = [k \in 1..Len(h.history) |-> Deref(h.rows, h.history[k])],
                        !.historyIndex = h.historyIndex]

\* setGrid(newGrid) for a newGrid built afresh in the handler.
heapSetNewGrid(h, v) ==
    LET n == allocGrid(h.rows, v)
    IN heapSetGrid([h EXCEPT !.rows = n.rows], n.grid)

\* handleMouseDown from the read of the cell on, for a cell getMousePosition returned.
heapHandleMouseDown(h, row, col, state) ==
    IF row >= Len(h.grid) THEN h
    ELSE IF ReadCell(Deref(h.rows, h.grid), row, col) # state
    THEN heapSaveToHistory(heapUpdatePixel(h, row, col, state))
    ELSE h

heapInvertPixels(h) ==
    LET g == Deref(h.rows, h.grid)
        newGrid == [i \in 1..Len(g) |-> [j \in 1..Len(g[i]) |-> invertPixel(g[i][j])]]
    IN IF JSONstringify(g) # JSONstringify(newGrid)
       THEN heapSaveToHistory(heapSetNewGrid(h, newGrid))
       ELSE h

heapShiftGrid(h, direction) ==
    LET r == shiftGrid(heapApp(h), direction)
    IN IF r.fault = "TypeError" THEN h
       ELSE heapSaveToHistory(heapSetNewGrid(h, r.grid))

heapResizeGrid(h, newSize) ==
    IF newSize < 1 THEN h
    ELSE heapSaveToHistory(heapSetNewGrid([h EXCEPT !.gridSize = newSize],
                                          resizeGrid(heapApp(h), newSize).grid))

\* The files for which reader.onload reaches setGrid(loadedGrid).
reachesSetGrid(f) ==
    /\ f.parses
    /\ \/ f.version = Some(1) /\ f.grid # Null
       \/ f.version = Some(2) /\ f.data # Null /\ IsPerfectSquare(Len(f.data[1]))

heapReaderOnLoad(h, f) ==
    IF reachesSetGrid(f)
    THEN LET r == readerOnLoad(heapApp(h), f)
         IN heapSetNewGrid([h EXCEPT !.gridSize = r.gridSize], r.grid)
    ELSE h

Ev(type) == [type |-> type, key |-> "", ctrl |-> FALSE, shift |-> FALSE]
KeyEv(type, e) == [type |-> type, key |-> e.key, ctrl |-> e.ctrl, shift |-> e.shift]
FileEv(type, f) == [type |-> type, key |-> "", ctrl |-> FALSE, shift |-> FALSE, file |-> f]

Becomes(s) ==
    /\ gridSize' = s.gridSize
    /\ pixelSize' = s.pixelSize
    /\ grid' = s.grid
    /\ history' = s.history
    /\ historyIndex' = s.historyIndex
    /\ isDrawing' = s.isDrawing
    /\ hoverRegion' = s.hoverRegion
    /\ drawingMode' = s.drawingMode
    /\ previousPosition' = s.previousPosition
    /\ hoverPosition' = s.hoverPosition
    /\ keyboardPosition' = s.keyboardPosition
    /\ pendingReads' = s.pendingReads
    /\ backgroundImage' = s.backgroundImage
    /\ pendingImages' = s.pendingImages
    /\ fault' = s.fault
    /\ pushed' = s.pushed

InitFrom(s) ==
    /\ gridSize = s.gridSize
    /\ pixelSize = s.pixelSize
    /\ grid = s.grid
    /\ history = s.history
    /\ historyIndex = s.historyIndex
    /\ isDrawing = s.isDrawing
    /\ hoverRegion = s.hoverRegion
    /\ drawingMode = s.drawingMode
    /\ previousPosition = s.previousPosition
    /\ hoverPosition = s.hoverPosition
    /\ keyboardPosition = s.keyboardPosition
    /\ pendingReads = s.pendingReads
    /\ backgroundImage = s.backgroundImage
    /\ pendingImages = s.pendingImages
    /\ fault = s.fault
    /\ pushed = s.pushed

Init ==
    /\ InitFrom(constructor)
    /\ event = Ev("init")
    /\ prior = [index |-> -1, length |-> 0]
    /\ steps = 0
    /\ call = Null
    /\ saved = Null
    /\ heap = heapConstructor(grid)
    /\ downloads = [saved |-> << >>, encoding |-> << >>, clicks |-> 0]
    /\ readers = << >>
    /\ held = [button |-> FALSE, keys |-> {}, over |-> FALSE]

\* One event of a bounded run: the handler runs to completion.
Handle(ev, s) ==
    /\ steps < MaxEvents
    /\ Becomes(s)
    /\ event' = ev
    /\ prior' = [index |-> historyIndex, length |-> Len(history)]
    /\ steps' = steps + 1
    /\ UNCHANGED <<call, saved, heap, downloads, readers, held>>

MouseDown == \E pt \in PointerSamples : Handle(Ev("mousedown"), handleMouseDown(App, pt[1], pt[2]))

MouseMove ==
    \E pt \in PointerSamples :
        Handle(Ev("mousemove"), documentMouseMove(handleMouseMove(App, pt[1], pt[2])))

MouseUp == Handle(Ev("mouseup"), handleMouseUp(App))

MouseLeave == Handle(Ev("mouseleave"), handleMouseLeave(App))

KeyDown == \E e \in KeyDownEvents : Handle(KeyEv("keydown", e), keydown(App, e))

KeyUp == \E e \in KeyUpEvents : Handle(KeyEv("keyup", e), keyup(App, e))

ClickBigger ==
    /\ gridSize < DEFAULT_GRID_SIZE + MaxGrow
    /\ Handle(Ev("bigger"), makeGridBigger(App))

ClickSmaller == Handle(Ev("smaller"), makeGridSmaller(App))

DropFile ==
    \E f \in JsonFiles \ pendingReads :
        /\ Cardinality(pendingReads) < MaxPending
        /\ Handle(FileEv("drop", f), handleFileDrop(App, f))

ReaderOnLoad ==
    \E f \in pendingReads :
        Handle(FileEv("load", f), readerOnLoad([App EXCEPT !.pendingReads = pendingReads \ {f}], f))

Next ==
    \/ MouseDown
    \/ MouseMove
    \/ MouseUp
    \/ MouseLeave
    \/ KeyDown
    \/ KeyUp
    \/ ClickBigger
    \/ ClickSmaller
    \/ DropFile
    \/ ReaderOnLoad

Spec == Init /\ [][Next]_vars

(***************************************************************************)
(* The history under long runs: invert, undo and redo alone, any number of *)
(* times, so that the history fills to HISTORY_LIMIT and evicts.           *)
(***************************************************************************)
HandleKey(e) ==
    /\ Becomes(keydown(App, e))
    /\ event' = KeyEv("keydown", e)
    /\ prior' = [index |-> historyIndex, length |-> Len(history)]
    /\ UNCHANGED <<steps, call, saved, heap, downloads, readers, held>>

InvertKey == HandleKey(KeyEvent("i", FALSE, FALSE))
UndoKey == HandleKey(KeyEvent("z", TRUE, FALSE))
RedoKey == HandleKey(KeyEvent("z", TRUE, TRUE)) \/ HandleKey(KeyEvent("y", TRUE, FALSE))

HistoryNext ==
    \/ InvertKey
    \/ UndoKey
    \/ RedoKey

SpecHistory == Init /\ [][HistoryNext]_vars

IsUndo(ev) == ev.type = "keydown" /\ ev.key = "z" /\ ev.ctrl /\ ~ev.shift
IsRedo(ev) ==
    /\ ev.type = "keydown"
    /\ \/ ev.key = "z" /\ ev.ctrl /\ ev.shift
       \/ ev.key = "y" /\ ev.ctrl
IsShift(ev) ==
    ev.type = "keydown" /\ ev.key \in {"arrowup", "arrowdown", "arrowleft", "arrowright"}

\* Equality of grids as saveToHistory decides it.
SameContents(g1, g2) == JSONstringify(g1) = JSONstringify(g2)

(***************************************************************************)
(* Grids a user can have painted: n rows of n cells, at most k of them not *)
(* clear.  An App holding such a grid is the constructor's App after a     *)
(* resize to n and the painting.                                           *)
(***************************************************************************)
Cells(n) == (1..n) \X (1..n)

SampleGrids(n, k) ==
    { [i \in 1..n |-> [j \in 1..n |-> IF <<i, j>> \in DOMAIN f THEN f[<<i, j>>] ELSE "clear"]] :
        f \in UNION { [P -> PixelState \ {"clear"}] :
                        P \in { Q \in SUBSET Cells(n) : Cardinality(Q) <= k } } }

appWithGrid(g) ==
    saveToHistory(updatePixelSize(
        [constructor EXCEPT !.gridSize = Len(g), !.grid = g,
                            !.history = << >>, !.historyIndex = -1, !.pushed = 0]))

InitWith(s) ==
    /\ InitFrom(s)
    /\ event = Ev("init")
    /\ prior = [index |-> -1, length |-> 0]
    /\ steps = 0
    /\ call = Null
    /\ saved = Null
    /\ heap = heapConstructor(grid)
    /\ downloads = [saved |-> << >>, encoding |-> << >>, clicks |-> 0]
    /\ readers = << >>
    /\ held = [button |-> FALSE, keys |-> {}, over |-> FALSE]

(***************************************************************************)
(* GridManager.updatePixel invoked on its own, once, with any row and      *)
(* column from one below the grid to one beyond it.                        *)
(***************************************************************************)
InitUpdatePixel == \E g \in SampleGrids(DEFAULT_GRID_SIZE, MaxPainted) : InitWith(appWithGrid(g))

OutOfRange(i, n) == i < 0 \/ i >= n

UpdatePixelCall ==
    /\ call = Null
    /\ \E row \in -1..gridSize, col \in -1..gridSize, state \in PixelState :
          LET r == updatePixel(grid, row, col, state)
          IN /\ call' = Some([fn |-> "updatePixel", row |-> row, col |-> col,
                               state |-> state, before |-> grid])
             /\ grid' = r.grid
             /\ fault' = IF r.threw THEN "TypeError"
                         ELSE IF r.grid # grid /\ OutOfRange(col, Len(grid[row + 1])) THEN "extend"
                         ELSE "none"
    /\ UNCHANGED <<gridSize, pixelSize, history, historyIndex, isDrawing, hoverRegion,
                   drawingMode, previousPosition, hoverPosition, keyboardPosition,
                   pendingReads, event, prior, pushed, steps, saved,
                   backgroundImage, pendingImages, heap, downloads, readers, held>>

SpecUpdatePixel == InitUpdatePixel /\ [][UpdatePixelCall]_vars

(***************************************************************************)
(* Export and load: the grid is exported, the saved file or another one is *)
(* dropped, and the read completes.  saved keeps, with the file, the grid  *)
(* it was made from; a load's event keeps the grid the load replaced.      *)
(***************************************************************************)
ExportSizes == 1..(DEFAULT_GRID_SIZE + 1)

\* A 3 x 3 grid with (0,0) filled and (1,1) top-left.
ExampleGrid == [createEmptyGrid(3) EXCEPT ![1][1] = "black", ![2][2] = "top-left"]

ExportGrids == {ExampleGrid} \cup UNION { SampleGrids(n, MaxPainted) : n \in ExportSizes }

InitExport == \E g \in ExportGrids : InitWith(appWithGrid(g))

\* A file that did not come from this grid.
OtherFile == [parses |-> TRUE, version |-> Some(2), data |-> Some(<<"a", "w", "q", "x">>), grid |-> Null]

\* The completion of a read, with the grid it found.
LoadEv(f, g) ==
    [type |-> "load", key |-> "", ctrl |-> FALSE, shift |-> FALSE, file |-> f, was |-> g]

HandleFree(ev, s) ==
    /\ Becomes(s)
    /\ event' = ev
    /\ prior' = [index |-> historyIndex, length |-> Len(history)]
    /\ UNCHANGED <<steps, call, heap, downloads, readers, held>>

ExportJSON ==
    /\ HandleFree(Ev("export"), App)
    /\ saved' = Some([file |-> exportAsJSON(App), grid |-> grid])

DropSaved ==
    /\ saved # Null
    /\ Cardinality(pendingReads) < MaxPending
    /\ HandleFree(FileEv("drop", saved[1].file), handleFileDrop(App, saved[1].file))
    /\ UNCHANGED saved

DropOther ==
    /\ Cardinality(pendingReads) < MaxPending
    /\ HandleFree(FileEv("drop", OtherFile), handleFileDrop(App, OtherFile))
    /\ UNCHANGED saved

ReadCompletes ==
    /\ \E f \in pendingReads :
          HandleFree(LoadEv(f, grid),
                     readerOnLoad([App EXCEPT !.pendingReads = pendingReads \ {f}], f))
    /\ UNCHANGED saved

ExportNext ==
    \/ ExportJSON
    \/ DropSaved
    \/ DropOther
    \/ ReadCompletes

SpecExport == InitExport /\ [][ExportNext]_vars

(***************************************************************************)
(* bresenhamLine invoked on its own, between any two cells, its loop taken *)
(* one iteration at a time.  No line has more than 2 * MaxCoord + 1 cells; *)
(* LineCap, twice that, stops a loop that would not end.                   *)
(***************************************************************************)
Coords == (-MaxCoord)..MaxCoord
LineCap == 4 * MaxCoord + 2

LineCall ==
    /\ call = Null
    /\ \E x0 \in Coords, y0 \in Coords, x1 \in Coords, y1 \in Coords :
          call' = Some(bresenhamEnter(x0, y0, x1, y1))
    /\ UNCHANGED <<gridSize, pixelSize, grid, history, historyIndex, isDrawing, hoverRegion,
                   drawingMode, previousPosition, hoverPosition, keyboardPosition,
                   pendingReads, event, prior, fault, pushed, steps, saved,
                   backgroundImage, pendingImages, heap, downloads, readers, held>>

LineIterate ==
    /\ call # Null
    /\ call[1].fn = "bresenhamLine"
    /\ ~call[1].done
    /\ Len(call[1].cells) < LineCap
    /\ call' = Some(bresenhamIterate(call[1]))
    /\ UNCHANGED <<gridSize, pixelSize, grid, history, historyIndex, isDrawing, hoverRegion,
                   drawingMode, previousPosition, hoverPosition, keyboardPosition,
                   pendingReads, event, prior, fault, pushed, steps, saved,
                   backgroundImage, pendingImages, heap, downloads, readers, held>>

LineNext ==
    \/ LineCall
    \/ LineIterate

SpecLine == Init /\ [][LineNext]_vars

\* The loop is a while (true) of one thread: an iteration that can run, runs.
SpecLineFair == SpecLine /\ WF_vars(LineIterate)

(***************************************************************************)
(* Pointer, resize and file events without any key event, one event more   *)
(* than in Spec: a drag, and what can happen to the grid while the button  *)
(* is down.                                                                *)
(***************************************************************************)
HandleInDrag(ev, s) ==
    /\ steps < MaxEvents + 1
    /\ Becomes(s)
    /\ event' = ev
    /\ prior' = [index |-> historyIndex, length |-> Len(history)]
    /\ steps' = steps + 1
    /\ UNCHANGED <<call, saved, heap, downloads, readers, held>>

DragMouseDown ==
    \E pt \in PointerSamples : HandleInDrag(Ev("mousedown"), handleMouseDown(App, pt[1], pt[2]))

DragMouseMove ==
    \E pt \in PointerSamples :
        HandleInDrag(Ev("mousemove"), documentMouseMove(handleMouseMove(App, pt[1], pt[2])))

DragMouseUp == HandleInDrag(Ev("mouseup"), handleMouseUp(App))

DragResize ==
    \/ gridSize < DEFAULT_GRID_SIZE + MaxGrow /\ HandleInDrag(Ev("bigger"), makeGridBigger(App))
    \/ HandleInDrag(Ev("smaller"), makeGridSmaller(App))

DragDropFile ==
    \E f \in JsonFiles \ pendingReads :
        /\ Cardinality(pendingReads) < MaxPending
        /\ HandleInDrag(FileEv("drop", f), handleFileDrop(App, f))

DragReaderOnLoad ==
    \E f \in pendingReads :
        HandleInDrag(FileEv("load", f), readerOnLoad([App EXCEPT !.pendingReads = pendingReads \ {f}], f))

DragNext ==
    \/ DragMouseDown
    \/ DragMouseMove
    \/ DragMouseUp
    \/ DragResize
    \/ DragDropFile
    \/ DragReaderOnLoad

SpecDrag == Init /\ [][DragNext]_vars

(***************************************************************************)
(* getMousePosition invoked on its own, once, with pointer offsets from    *)
(* MaxOutside pixels before the canvas to MaxOutside pixels beyond it, at  *)
(* the constructor's grid size or after resizes.                           *)
(***************************************************************************)
Offsets == (-MaxOutside)..(gridSize * pixelSize + MaxOutside)

ResolveCall ==
    /\ call = Null
    /\ \E x \in Offsets, y \in Offsets :
          call' = Some([fn |-> "getMousePosition", x |-> x, y |-> y,
                        result |-> getMousePosition(x, y, pixelSize, gridSize)])
    /\ UNCHANGED <<gridSize, pixelSize, grid, history, historyIndex, isDrawing, hoverRegion,
                   drawingMode, previousPosition, hoverPosition, keyboardPosition,
                   pendingReads, event, prior, fault, pushed, steps, saved,
                   backgroundImage, pendingImages, heap, downloads, readers, held>>

ResolveResize ==
    /\ call = Null
    /\ \/ ClickBigger
       \/ ClickSmaller

ResolveNext ==
    \/ ResolveCall
    \/ ResolveResize

SpecResolve == Init /\ [][ResolveNext]_vars

(***************************************************************************)
(* The grid store and the history with their arrays as objects: cell       *)
(* edits, whole-grid operations, loads, undo and redo applied to the heap. *)
(***************************************************************************)
HeapStep(name, h) ==
    /\ Len(heap.trace) < MaxHeapOps
    /\ heap' = [h EXCEPT !.trace = Append(heap.trace, name)]
    /\ UNCHANGED <<gridSize, pixelSize, grid, history, historyIndex, isDrawing, hoverRegion,
                   drawingMode, previousPosition, hoverPosition, keyboardPosition,
                   pendingReads, event, prior, fault, pushed, steps, call, saved,
                   backgroundImage, pendingImages, downloads, readers, held>>

HeapMouseDown ==
    \E row \in {0, heap.gridSize - 1}, col \in {0, heap.gridSize - 1},
       state \in {"black", "top-left"} :
        HeapStep("mousedown", heapHandleMouseDown(heap, row, col, state))
HeapInvert == HeapStep("invert", heapInvertPixels(heap))
HeapShift == \E d \in Directions : HeapStep("shift", heapShiftGrid(heap, d))
HeapBigger ==
    /\ heap.gridSize < DEFAULT_GRID_SIZE + MaxGrow
    /\ HeapStep("bigger", heapResizeGrid(heap, heap.gridSize + 1))
HeapSmaller == HeapStep("smaller", heapResizeGrid(heap, heap.gridSize - 1))
HeapUndo == HeapStep("undo", heapUndo(heap))
HeapRedo == HeapStep("redo", heapRedo(heap))
HeapLoad == \E f \in JsonFiles : HeapStep("load", heapReaderOnLoad(heap, f))

HeapNext ==
    \/ HeapMouseDown
    \/ HeapInvert
    \/ HeapShift
    \/ HeapBigger
    \/ HeapSmaller
    \/ HeapUndo
    \/ HeapRedo
    \/ HeapLoad

SpecHeap == Init /\ [][HeapNext]_vars

(***************************************************************************)
(* The backdrop: images are dropped, read and decoded, the backdrop is     *)
(* cleared, and cells are painted in between.                              *)
(***************************************************************************)
ImageEv(type, img) ==
    [type |-> type, key |-> "", ctrl |-> FALSE, shift |-> FALSE, image |-> img]

DropImage ==
    \E img \in ImageFiles :
        /\ Cardinality(pendingImages) < MaxPending
        /\ HandleFree(ImageEv("imagedrop", img), handleImageDrop(App, img))
        /\ UNCHANGED saved

ImageReaderOnLoad ==
    \E p \in pendingImages :
        /\ p.stage = "reading"
        /\ HandleFree(ImageEv("imageread", p.image), imageReaderOnLoad(App, p.image))
        /\ UNCHANGED saved

ImageOnLoad ==
    \E p \in pendingImages :
        /\ p.stage = "decoding"
        /\ HandleFree(ImageEv("imageload", p.image), imageOnLoad(App, p.image))
        /\ UNCHANGED saved

ClearBackground ==
    /\ HandleFree(Ev("clearbackground"), clearBackground(App))
    /\ UNCHANGED saved

BackdropNext ==
    \/ DropImage
    \/ ImageReaderOnLoad
    \/ ImageOnLoad
    \/ ClearBackground
    \/ MouseDown

SpecBackdrop == Init /\ [][BackdropNext]_vars

(***************************************************************************)
(* Exports: the four export buttons are clicked, the encoded canvases are  *)
(* saved, and in between cells are painted, edits undone and the pointer   *)
(* moved.                                                                  *)
(***************************************************************************)
ExportClick(name, d) ==
    /\ steps < MaxEvents + 1
    /\ downloads.clicks < MaxExports
    /\ downloads' = d
    /\ event' = Ev(name)
    /\ steps' = steps + 1
    /\ UNCHANGED <<gridSize, pixelSize, grid, history, historyIndex, isDrawing, hoverRegion,
                   drawingMode, previousPosition, hoverPosition, keyboardPosition,
                   pendingReads, prior, fault, pushed, call, saved,
                   backgroundImage, pendingImages, heap, readers, held>>

Clicked == [downloads EXCEPT !.clicks = downloads.clicks + 1]

ClickExportPNG == ExportClick("export-png", exportAsPNG(Clicked, App))
ClickExportSVG == ExportClick("export-svg", exportAsSVG(Clicked, App))
ClickExportJSON == ExportClick("export-json", exportAsJSONName(Clicked, App))
ClickExportAll == ExportClick("export-all", exportAll(Clicked, App))

ToBlobCallback ==
    /\ \E k \in 1..Len(downloads.encoding) : downloads' = toBlobCallback(downloads, k)
    /\ event' = Ev("toblob")
    /\ UNCHANGED <<gridSize, pixelSize, grid, history, historyIndex, isDrawing, hoverRegion,
                   drawingMode, previousPosition, hoverPosition, keyboardPosition,
                   pendingReads, prior, fault, pushed, steps, call, saved,
                   backgroundImage, pendingImages, heap, readers, held>>

ExportUndo ==
    HandleInDrag(KeyEv("keydown", KeyEvent("z", TRUE, FALSE)),
                 keydown(App, KeyEvent("z", TRUE, FALSE)))

\* A press in the corner and one in the centre of cell (0, 0).
ExportMouseDown ==
    \E pt \in CellOffsets(pixelSize) :
        HandleInDrag(Ev("mousedown"), handleMouseDown(App, pt[1], pt[2]))

DownloadsNext ==
    \/ ClickExportPNG
    \/ ClickExportSVG
    \/ ClickExportJSON
    \/ ClickExportAll
    \/ ToBlobCallback
    \/ ExportMouseDown
    \/ ExportUndo
    \/ ImageOnLoad

\* The App after construction and the drop of an image that the FileReader
\* has read and the Image is decoding.
InitDownloads ==
    InitWith(imageReaderOnLoad(handleImageDrop(constructor, "a.png"), "a.png"))

SpecDownloads == InitDownloads /\ [][DownloadsNext]_vars

(***************************************************************************)
(* Overlapping loads: each drop of a JSON file makes a FileReader of its   *)
(* own and starts its read; the reads complete in any order.  A reader is  *)
(* its file, the number of the event that dropped it and the number of the *)
(* event that completed it (0 while the read is pending).                  *)
(***************************************************************************)
\* new FileReader() and reader.readAsText(file).
newFileReader(rs, f, now) == Append(rs, [file |-> f, dropped |-> now, done |-> 0])

\* reader.onload of the k-th reader has run.
readerDone(rs, k, now) == [rs EXCEPT ![k].done = now]

HandleRead(ev, s, rs) ==
    /\ steps < MaxEvents + 1
    /\ Becomes(s)
    /\ event' = ev
    /\ prior' = [index |-> historyIndex, length |-> Len(history)]
    /\ steps' = steps + 1
    /\ readers' = rs
    /\ UNCHANGED <<call, saved, heap, downloads, held>>

OverlapDrop ==
    \E f \in JsonFiles \ pendingReads :
        /\ Cardinality(pendingReads) < MaxPending + 1
        /\ HandleRead(FileEv("drop", f), handleFileDrop(App, f),
                      newFileReader(readers, f, steps + 1))

OverlapReaderOnLoad ==
    \E k \in 1..Len(readers) :
        /\ readers[k].done = 0
        /\ HandleRead(LoadEv(readers[k].file, grid),
                      readerOnLoad([App EXCEPT !.pendingReads = pendingReads \ {readers[k].file}],
                                   readers[k].file),
                      readerDone(readers, k, steps + 1))

OverlapNext ==
    \/ OverlapDrop
    \/ OverlapReaderOnLoad

SpecOverlap == Init /\ [][OverlapNext]_vars

(***************************************************************************)
(* The drawing session against the user's hand.  The button goes down over *)
(* the canvas and comes up over it or outside it; only the canvases have a *)
(* mouseup listener, so a release outside them runs no handler.  Paint     *)
(* keys go down (and repeat while held) and come up wherever the pointer   *)
(* is; the key listeners are the document's.                               *)
(***************************************************************************)
\* The paint keys pressed in these runs.
SessionKeys == {"z", "x"}

HandleSession(ev, s, h) ==
    /\ steps < MaxEvents + 1
    /\ Becomes(s)
    /\ event' = ev
    /\ prior' = [index |-> historyIndex, length |-> Len(history)]
    /\ steps' = steps + 1
    /\ held' = h
    /\ UNCHANGED <<call, saved, heap, downloads, readers>>

SessionPress ==
    /\ held.over
    /\ ~held.button
    /\ \E pt \in PointerSamples :
          HandleSession(Ev("mousedown"), handleMouseDown(App, pt[1], pt[2]),
                        [held EXCEPT !.button = TRUE])

SessionRelease ==
    /\ held.button
    /\ \/ /\ held.over
          /\ HandleSession(Ev("mouseup"), handleMouseUp(App), [held EXCEPT !.button = FALSE])
       \/ /\ ~held.over
          /\ HandleSession(Ev("release-outside"), App, [held EXCEPT !.button = FALSE])

SessionMove ==
    \E pt \in PointerSamples :
        HandleSession(Ev("mousemove"), documentMouseMove(handleMouseMove(App, pt[1], pt[2])),
                      [held EXCEPT !.over = TRUE])

SessionLeave ==
    /\ held.over
    /\ HandleSession(Ev("mouseleave"), handleMouseLeave(App), [held EXCEPT !.over = FALSE])

SessionKeyDown ==
    \E k \in SessionKeys :
        HandleSession(KeyEv("keydown", KeyEvent(k, FALSE, FALSE)),
                      keydown(App, KeyEvent(k, FALSE, FALSE)),
                      [held EXCEPT !.keys = held.keys \cup {k}])

SessionKeyUp ==
    \E k \in held.keys :
        HandleSession(KeyEv("keyup", KeyEvent(k, FALSE, FALSE)),
                      keyup(App, KeyEvent(k, FALSE, FALSE)),
                      [held EXCEPT !.keys = held.keys \ {k}])

SessionNext ==
    \/ SessionPress
    \/ SessionRelease
    \/ SessionMove
    \/ SessionLeave
    \/ SessionKeyDown
    \/ SessionKeyUp

\* The App after construction, the pointer over the canvas or not.
InitSession ==
    /\ InitFrom(constructor)
    /\ event = Ev("init")
    /\ prior = [index |-> -1, length |-> 0]
    /\ steps = 0
    /\ call = Null
    /\ saved = Null
    /\ heap = heapConstructor(grid)
    /\ downloads = [saved |-> << >>, encoding |-> << >>, clicks |-> 0]
    /\ readers = << >>
    /\ \E over \in BOOLEAN : held = [button |-> FALSE, keys |-> {}, over |-> over]

SpecSession == InitSession /\ [][SessionNext]_vars

(***************************************************************************)
(* Claims.                                                                 *)
(***************************************************************************)

\* C1: in every reachable state the grid has gridSize rows, every row has
\* gridSize cells and every cell holds one of the six pixel states.
GridIsSquareOfGridSize ==
    /\ Len(grid) = gridSize
    /\ \A i \in 1..Len(grid) :
          /\ Len(grid[i]) = gridSize
          /\ \A j \in 1..Len(grid[i]) : grid[i][j] \in PixelState

\* C2: once the constructor has pushed the first snapshot, the history is
\* non-empty and 0 <= historyIndex <= history.length - 1.
HistoryIndexInRange ==
    /\ Len(history) >= 1
    /\ 0 <= historyIndex
    /\ historyIndex <= Len(history) - 1

\* An undo from index 1 has reached index 0 with later entries still stored.
HistoryIndexInRangeWitness ==
    /\ IsUndo(event)
    /\ prior.index = 1
    /\ historyIndex = 0
    /\ Len(history) >= 2

\* C3: the history never holds more than HISTORY_LIMIT entries, and after an
\* undo the index is at least 0 and the grid equals the entry at the index,
\* also when the undo is repeated at index 0.
HistoryWithinCapacity ==
    /\ Len(history) <= HISTORY_LIMIT
    /\ historyIndex >= 0
    /\ IsUndo(event) => SameContents(grid, history[historyIndex + 1])

\* More than HISTORY_LIMIT snapshots were pushed (the constructor's snapshot is
\* evicted) and undo, repeated, stands at index 0.
HistoryWithinCapacityWitness ==
    /\ Len(history) = HISTORY_LIMIT
    /\ history[1] # createEmptyGrid(DEFAULT_GRID_SIZE)
    /\ IsUndo(event)
    /\ prior.index = 0
    /\ historyIndex = 0
    /\ SameContents(grid, history[1])

\* C4: undo at index 0 changes neither history, index nor grid; otherwise it
\* decrements the index by one, keeps the entries and makes the grid equal in
\* content to the entry at the new index.
UndoContract ==
    [][IsUndo(event') =>
          IF historyIndex = 0
          THEN UNCHANGED <<history, historyIndex, grid>>
          ELSE /\ historyIndex' = historyIndex - 1
               /\ history' = history
               /\ SameContents(grid', history[historyIndex' + 1])]_vars

\* An undo has moved the index down to an entry that is neither first nor last.
UndoContractWitness ==
    /\ IsUndo(event)
    /\ prior.index = 2
    /\ historyIndex = 1
    /\ Len(history) = 3
    /\ SameContents(grid, history[2])

\* C5: redo at the last entry changes neither history, index nor grid;
\* otherwise it increments the index by one, keeps the entries and makes the
\* grid equal in content to the entry at the new index.
RedoContract ==
    [][IsRedo(event') =>
          IF historyIndex = Len(history) - 1
          THEN UNCHANGED <<history, historyIndex, grid>>
          ELSE /\ historyIndex' = historyIndex + 1
               /\ history' = history
               /\ SameContents(grid', history[historyIndex' + 1])]_vars

\* A redo has moved the index up from an entry that was not the last.
RedoContractWitness ==
    /\ IsRedo(event)
    /\ prior.index < prior.length - 1
    /\ historyIndex = prior.index + 1
    /\ SameContents(grid, history[historyIndex + 1])

\* C6: an event that pushes one snapshot below the capacity keeps the entries
\* up to the old index in order, discards those after it, appends a snapshot
\* that differs from the entry at the old index (the grid, when no handler of
\* the event raised an error) and leaves the index at the last entry, where
\* redo changes nothing.
PushDiscardsRedo ==
    [][(pushed' = 1 /\ historyIndex + 2 <= HISTORY_LIMIT) =>
          /\ SubSeq(history', 1, historyIndex + 1) = SubSeq(history, 1, historyIndex + 1)
          /\ Len(history') = historyIndex + 2
          /\ historyIndex' = historyIndex + 1
          /\ historyIndex' = Len(history') - 1
          /\ ~SameContents(history'[Len(history')], history[historyIndex + 1])
          /\ (fault' # "TypeError" => SameContents(grid', history'[Len(history')]))
          /\ redo(App)' = App']_vars

\* A push has arrived with redo entries after the index and has discarded them.
PushDiscardsRedoWitness ==
    /\ pushed = 1
    /\ prior.index < prior.length - 1
    /\ Len(history) = prior.index + 2
    /\ historyIndex = Len(history) - 1

\* C7: when shiftGrid or resizeGrid hands saveToHistory a grid whose contents
\* equal the entry at the index, the entries (redo entries included) and the
\* index stay as they are.
PushIdenticalIsNoOp ==
    [][((IsShift(event') \/ event'.type \in {"bigger", "smaller"})
          /\ fault' # "TypeError"
          /\ SameContents(grid', history[historyIndex + 1])) =>
          /\ UNCHANGED <<history, historyIndex>>
          /\ pushed' = 0]_vars

\* A shift has left the grid equal to the entry at the index, with a redo entry
\* after it that is still stored.
PushIdenticalIsNoOpWitness ==
    /\ IsShift(event)
    /\ fault = "none"
    /\ pushed = 0
    /\ SameContents(grid, history[historyIndex + 1])
    /\ historyIndex < Len(history) - 1
    /\ Len(history) = prior.length

\* C8: a push onto a full history whose index is at the last entry evicts the
\* oldest entry: the entries kept are the former ones but the first, in order,
\* followed by the new snapshot, and the index is at that snapshot.
PushEvictsOldest ==
    [][(pushed' = 1 /\ Len(history) = HISTORY_LIMIT /\ historyIndex = HISTORY_LIMIT - 1) =>
          /\ history' = Append(Tail(history), grid')
          /\ Len(history') = HISTORY_LIMIT
          /\ historyIndex' = HISTORY_LIMIT - 1]_vars

\* A push has arrived at a full history and the history is full again.
PushEvictsOldestWitness ==
    /\ pushed = 1
    /\ prior.length = HISTORY_LIMIT
    /\ prior.index = HISTORY_LIMIT - 1
    /\ Len(history) = HISTORY_LIMIT
    /\ historyIndex = HISTORY_LIMIT - 1
    /\ SameContents(grid, history[HISTORY_LIMIT])

\* C9: while a mouse drag is in progress (after the mouse-down, before the
\* mouse-up) a pointer move pushes no snapshot.
NoSnapshotDuringDrag ==
    (event.type = "mousemove" /\ isDrawing /\ previousPosition # Null) => pushed = 0

\* C10: no handler reads or writes a cell outside the grid: no TypeError is
\* raised, no row is lengthened and no undefined cell is read.
AccessesStayInGrid == fault = "none"

\* C11: updatePixel called with a row or a column outside [0, gridSize) leaves
\* the grid as it was, raises no error and changes no row's length.
UpdatePixelOutOfRangeIsNoOp ==
    (/\ call # Null
     /\ call[1].fn = "updatePixel"
     /\ OutOfRange(call[1].row, gridSize) \/ OutOfRange(call[1].col, gridSize)) =>
        /\ grid = call[1].before
        /\ fault = "none"

\* The files the loader is to reject: not JSON, no version or a version that is
\* neither 1 nor 2, or version 2 with data whose length is not a perfect square.
Rejected(f) ==
    \/ ~f.parses
    \/ f.version \notin {Some(1), Some(2)}
    \/ f.version = Some(2) /\ f.data # Null /\ ~IsPerfectSquare(Len(f.data[1]))

\* C12: when the read of such a file completes, the grid, gridSize, the
\* history and its index are what they were and no error leaves the handler.
RejectedLoadChangesNothing ==
    [][(event'.type = "load" /\ Rejected(event'.file)) =>
          /\ UNCHANGED <<grid, gridSize, history, historyIndex>>
          /\ fault' = "none"]_vars

\* A version-2 file of three characters has been read and rejected after the
\* grid was painted.
RejectedLoadChangesNothingWitness ==
    /\ event.type = "load"
    /\ event.file.version = Some(2)
    /\ Rejected(event.file)
    /\ Len(history) >= 2
    /\ grid # createEmptyGrid(DEFAULT_GRID_SIZE)

\* The compact code of a pixel state.
CompactCode(pixel) ==
    CASE pixel = "black" -> "z"
      [] pixel = "clear" -> "x"
      [] pixel = "top-left" -> "s"
      [] pixel = "top-right" -> "a"
      [] pixel = "bottom-left" -> "w"
      [] pixel = "bottom-right" -> "q"

\* C13: when the read of the file exported from an n x n grid completes, the
\* grid is that grid again, cell for cell, and gridSize is n.
ExportLoadRoundTrip ==
    [][(event'.type = "load" /\ saved # Null /\ event'.file = saved[1].file) =>
          /\ grid' = saved[1].grid
          /\ gridSize' = Len(saved[1].grid)]_vars

\* The exported file has been read back over a grid of another dimension.
ExportLoadRoundTripWitness ==
    /\ event.type = "load"
    /\ saved # Null
    /\ event.file = saved[1].file
    /\ Len(saved[1].grid) = DEFAULT_GRID_SIZE + 1
    /\ saved[1].grid # createEmptyGrid(DEFAULT_GRID_SIZE + 1)
    /\ event.was = [i \in 1..2 |-> [j \in 1..2 |-> decodeChar(OtherFile.data[1][(i - 1) * 2 + j])]]
    /\ grid = saved[1].grid
    /\ gridSize = DEFAULT_GRID_SIZE + 1

\* C14: the file exported from an n x n grid is tagged version 2 and its data
\* is n * n characters, the character at (i * n + j) being the compact code of
\* cell (i, j).
ExportIsRowMajorCodes ==
    saved # Null =>
        LET g == saved[1].grid
            f == saved[1].file
            n == Len(g)
        IN /\ f.version = Some(2)
           /\ f.data # Null
           /\ Len(f.data[1]) = n * n
           /\ \A i \in 1..n : \A j \in 1..n :
                 f.data[1][(i - 1) * n + j] = CompactCode(g[i][j])

\* The 3 x 3 grid with (0,0) filled and (1,1) top-left has been exported as
\* "zxxxsxxxx".
ExportIsRowMajorCodesWitness ==
    /\ saved # Null
    /\ saved[1].grid = ExampleGrid
    /\ saved[1].file.data = Some(<<"z", "x", "x", "x", "s", "x", "x", "x", "x">>)

\* A grid of n rows of n cells, each a pixel state.
IsSquareGrid(g, n) ==
    /\ Len(g) = n
    /\ \A i \in 1..Len(g) :
          /\ Len(g[i]) = n
          /\ \A j \in 1..Len(g[i]) : g[i][j] \in PixelState

\* C15: when the read of a version-1 file completes, the grid is the grid the
\* file carries and gridSize is its number of rows; when the read of a
\* version-2 file of n * n characters completes, gridSize is n and cell (i, j)
\* is the state coded by character i * n + j; either way the grid is then
\* gridSize rows of gridSize cells.
LoaderDispatchesOnVersion ==
    [][(event'.type = "load" /\ event'.file.parses) =>
          LET f == event'.file
          IN /\ (f.version = Some(1) /\ f.grid # Null) =>
                   /\ grid' = f.grid[1]
                   /\ gridSize' = Len(f.grid[1])
                   /\ IsSquareGrid(grid', gridSize')
             /\ (f.version = Some(2) /\ f.data # Null /\ IsPerfectSquare(Len(f.data[1]))) =>
                   LET n == sqrtInt(Len(f.data[1]))
                   IN /\ gridSize' = n
                      /\ IsSquareGrid(grid', n)
                      /\ \A i \in 1..n : \A j \in 1..n :
                            CompactCode(grid'[i][j]) = f.data[1][(i - 1) * n + j]]_vars

\* The cells handed to the callback so far by the call of bresenhamLine.
Emitted == call[1].cells
IsLineCall == call # Null /\ call[1].fn = "bresenhamLine"
Max(a, b) == IF a > b THEN a ELSE b
\* max(|x1 - x0|, |y1 - y0|) + 1 for the arguments of the call.
ChebyshevCells ==
    Max(Abs(call[1].to[1] - call[1].from[1]), Abs(call[1].to[2] - call[1].from[2])) + 1

\* C16: the first cell bresenhamLine hands to its callback is the start, the
\* last one (when the loop has ended) is the end, and two consecutive cells
\* differ by at most 1 in x and by at most 1 in y.
LineIsConnectedPath ==
    IsLineCall =>
        /\ Emitted # << >> => Emitted[1] = call[1].from
        /\ call[1].done => Emitted # << >> /\ Emitted[Len(Emitted)] = call[1].to
        /\ \A k \in 1..(Len(Emitted) - 1) :
              /\ Abs(Emitted[k + 1][1] - Emitted[k][1]) <= 1
              /\ Abs(Emitted[k + 1][2] - Emitted[k][2]) <= 1

\* The line from (0,0) to (2,1) has been rasterized.
LineIsConnectedPathWitness ==
    /\ IsLineCall
    /\ call[1].done
    /\ call[1].from = <<0, 0>>
    /\ call[1].to = <<2, 1>>
    /\ Len(Emitted) = 3

\* C17: bresenhamLine hands no cell to its callback twice; when the loop has
\* ended the start and the end have been handed over once each, a single cell
\* when they are equal; and the cells are those another call with the same
\* arguments hands over.
LineEmitsCellsOnce ==
    IsLineCall =>
        /\ \A j \in 1..Len(Emitted) : \A k \in 1..Len(Emitted) :
              j # k => Emitted[j] # Emitted[k]
        /\ call[1].done =>
              /\ Cardinality({k \in 1..Len(Emitted) : Emitted[k] = call[1].from}) = 1
              /\ Cardinality({k \in 1..Len(Emitted) : Emitted[k] = call[1].to}) = 1
              /\ call[1].from = call[1].to => Len(Emitted) = 1
        /\ Emitted = SubSeq(bresenhamLine(call[1].from[1], call[1].from[2],
                                           call[1].to[1], call[1].to[2]), 1, Len(Emitted))

\* A line of the greatest length between two different cells has been rasterized.
LineEmitsCellsOnceWitness ==
    /\ IsLineCall
    /\ call[1].done
    /\ call[1].from # call[1].to
    /\ Len(Emitted) = 2 * MaxCoord + 1

\* C18: a call of bresenhamLine never hands more than
\* max(|x1 - x0|, |y1 - y0|) + 1 cells to its callback, and its loop ends,
\* at the end cell, with exactly that many handed over.
LineTerminates ==
    /\ [](IsLineCall => Len(Emitted) <= ChebyshevCells)
    /\ [](IsLineCall => <>(/\ IsLineCall
                            /\ call[1].done
                            /\ Len(Emitted) = ChebyshevCells
                            /\ Emitted[Len(Emitted)] = call[1].to))

\* The loop has ended on a line that is neither a single cell nor straight
\* along an axis or a diagonal.
LineTerminatesWitness ==
    /\ IsLineCall
    /\ call[1].done
    /\ call[1].from = <<-1, 0>>
    /\ call[1].to = <<1, -1>>
    /\ Len(Emitted) = ChebyshevCells

\* The cell at (row, col) of g, Undefined where g has none.
CellAt(g, row, col) ==
    IF row < Len(g) /\ col < Len(g[row + 1]) THEN g[row + 1][col + 1] ELSE Undefined

\* The cells of a sequence, as a set.
Range(seq) == {seq[k] : k \in 1..Len(seq)}

\* C19: when, during a mouse drag without key events, the pointer moves from
\* the cell sampled before to another cell, every cell of the grid on the
\* rasterized line between them then holds the state fixed at mouse-down
\* (black for a press in the center, else the corner pressed) and every
\* other cell holds what it held.
DragPaintsLine ==
    [][(event'.type = "mousemove" /\ isDrawing /\ previousPosition # Null) =>
          LET P == previousPosition[1]
              Q == hoverPosition'[1]
              state == IF hoverRegion = "center" THEN "black" ELSE hoverRegion
              line == Range(bresenhamLine(P.col, P.row, Q.col, Q.row))
          IN /\ fault' = "none"
             /\ \A row \in 0..(gridSize - 1) : \A col \in 0..(gridSize - 1) :
                   CellAt(grid', row, col) =
                       IF <<col, row>> \in line THEN state ELSE CellAt(grid, row, col)]_vars

\* The same for a drag over a grid that is gridSize rows of gridSize cells.
DragPaintsLineOnSquareGrid ==
    [][(event'.type = "mousemove" /\ isDrawing /\ previousPosition # Null
          /\ IsSquareGrid(grid, gridSize)) =>
          LET P == previousPosition[1]
              Q == hoverPosition'[1]
              state == IF hoverRegion = "center" THEN "black" ELSE hoverRegion
              line == Range(bresenhamLine(P.col, P.row, Q.col, Q.row))
          IN /\ fault' = "none"
             /\ \A row \in 0..(gridSize - 1) : \A col \in 0..(gridSize - 1) :
                   CellAt(grid', row, col) =
                       IF <<col, row>> \in line THEN state ELSE CellAt(grid, row, col)]_vars

IsResolveCall == call # Null /\ call[1].fn = "getMousePosition"
HoverRegions == {"top-left", "top-right", "bottom-left", "bottom-right", "center"}

\* C20: getMousePosition returns null for a pointer offset that is negative
\* or at or beyond gridSize * pixelSize in x or in y; for any other offset it
\* returns the column and row whose cell holds the offset (col * pixelSize
\* <= x < (col + 1) * pixelSize, likewise the row) and one of the five regions.
ResolverRespectsBounds ==
    IsResolveCall =>
        LET c == call[1]
            extent == gridSize * pixelSize
        IN IF c.x < 0 \/ c.x >= extent \/ c.y < 0 \/ c.y >= extent
           THEN c.result = Null
           ELSE /\ c.result # Null
                /\ c.result[1].col * pixelSize <= c.x
                /\ c.x < (c.result[1].col + 1) * pixelSize
                /\ c.result[1].row * pixelSize <= c.y
                /\ c.y < (c.result[1].row + 1) * pixelSize
                /\ c.result[1].region \in HoverRegions

\* The offset exactly at gridSize * pixelSize has been resolved to null, in a
\* grid that was resized.
ResolverRespectsBoundsWitness ==
    /\ IsResolveCall
    /\ gridSize = DEFAULT_GRID_SIZE + 1
    /\ call[1].x = gridSize * pixelSize
    /\ call[1].y = gridSize * pixelSize - 1
    /\ call[1].result = Null

\* The corner conditions of a call, from its offsets: fx = (x % pixelSize) /
\* pixelSize and fy likewise, each comparison multiplied through by
\* 2 * pixelSize.
CornersHolding(c) ==
    LET mx == c.x % pixelSize
        my == c.y % pixelSize
    IN {r \in HoverRegions :
           \/ r = "top-left" /\ 2 * (mx + my) < pixelSize
           \/ r = "bottom-right" /\ 2 * (mx + my) > 3 * pixelSize
           \/ r = "top-right" /\ 2 * (mx - my) > pixelSize
           \/ r = "bottom-left" /\ 2 * (my - mx) > pixelSize}

OnThreshold(c) ==
    LET mx == c.x % pixelSize
        my == c.y % pixelSize
    IN \/ 2 * (mx + my) = pixelSize
       \/ 2 * (mx + my) = 3 * pixelSize
       \/ 2 * (mx - my) = pixelSize
       \/ 2 * (my - mx) = pixelSize

\* C21: for every pointer offset inside a cell at most one of the four corner
\* conditions (fx+fy < 0.5, fx+fy > 1.5, fx-fy > 0.5, fy-fx > 0.5) holds, and
\* getMousePosition returns the corner whose condition holds, or center when
\* none does: one region of the five, whatever the order of the tests.
ResolverRegionIsTheOneCondition ==
    (IsResolveCall /\ call[1].result # Null) =>
        LET corners == CornersHolding(call[1])
        IN /\ Cardinality(corners) <= 1
           /\ call[1].result[1].region \in HoverRegions
           /\ \A r \in corners : call[1].result[1].region = r
           /\ corners = {} => call[1].result[1].region = "center"

\* An offset whose condition is tested third in the code (fx-fy > 0.5) has
\* been resolved to top-right.
ResolverRegionIsTheOneConditionWitness ==
    /\ IsResolveCall
    /\ call[1].result # Null
    /\ CornersHolding(call[1]) = {"top-right"}
    /\ 2 * ((call[1].x % pixelSize) + (call[1].y % pixelSize)) >= pixelSize
    /\ call[1].result[1].region = "top-right"

\* C22: a pointer whose fractional position lies exactly on a threshold
\* (fx+fy = 0.5, fx+fy = 1.5, fx-fy = 0.5 or fy-fx = 0.5) is resolved to
\* center.
ResolverTieIsCenter ==
    (IsResolveCall /\ call[1].result # Null /\ OnThreshold(call[1])) =>
        call[1].result[1].region = "center"

\* An offset with fx - fy = 0.5 exactly has been resolved to center.
ResolverTieIsCenterWitness ==
    /\ IsResolveCall
    /\ call[1].result # Null
    /\ 2 * ((call[1].x % pixelSize) - (call[1].y % pixelSize)) = pixelSize
    /\ call[1].result[1].region = "center"

IsInvert(ev) == ev.type = "keydown" /\ ev.key = "i"

\* The state the claim pairs with each state: Filled with Empty, a triangle
\* with the diagonally opposite corner.
Opposite(pixel) ==
    CASE pixel = "clear" -> "black"
      [] pixel = "black" -> "clear"
      [] pixel = "top-left" -> "bottom-right"
      [] pixel = "bottom-right" -> "top-left"
      [] pixel = "top-right" -> "bottom-left"
      [] pixel = "bottom-left" -> "top-right"

\* C23: invert keeps the shape of the grid and replaces every cell's state by
\* its opposite (Filled and Empty swap, a triangle goes to the diagonally
\* opposite corner), and inverting the inverted grid gives back, cell for
\* cell, the grid before the first invert.
InvertIsInvolution ==
    [][IsInvert(event') =>
          /\ Len(grid') = Len(grid)
          /\ \A i \in 1..Len(grid) :
                /\ Len(grid'[i]) = Len(grid[i])
                /\ \A j \in 1..Len(grid[i]) :
                      grid[i][j] \in PixelState => grid'[i][j] = Opposite(grid[i][j])
          /\ invertPixels(App').grid = grid]_vars

\* A painted grid has been inverted twice: the entry two back is the grid
\* again, and the entry between them holds the opposite corner.
InvertIsInvolutionWitness ==
    /\ IsInvert(event)
    /\ historyIndex = 3
    /\ Len(history) = 4
    /\ history[2] = grid
    /\ \E i \in 1..Len(grid) : \E j \in 1..Len(grid[i]) :
          /\ grid[i][j] = "top-left"
          /\ history[3][i][j] = "bottom-right"

IsResize(ev) == ev.type \in {"bigger", "smaller"}
RequestedSize(ev, n) == IF ev.type = "bigger" THEN n + 1 ELSE n - 1
HasCell(g, row, col) == row < Len(g) /\ col < Len(g[row + 1])

\* C24: a resize from gridSize N to M >= 1 (the bigger and smaller buttons,
\* M = N + 1 and N - 1) sets gridSize to M and leaves a grid of M rows of M
\* cells, in which every cell the grid had before keeps its state and every
\* other cell is clear.
ResizeKeepsOverlap ==
    [][(IsResize(event') /\ RequestedSize(event', gridSize) >= 1) =>
          LET M == RequestedSize(event', gridSize)
          IN /\ gridSize' = M
             /\ Len(grid') = M
             /\ \A i \in 0..(M - 1) :
                   /\ Len(grid'[i + 1]) = M
                   /\ \A j \in 0..(M - 1) :
                         grid'[i + 1][j + 1] =
                            IF HasCell(grid, i, j) THEN grid[i + 1][j + 1] ELSE "clear"]_vars

\* A grid with a painted cell in its first and in its last row has been made
\* smaller: the first is kept, the last is gone with its row.
ResizeKeepsOverlapWitness ==
    /\ event.type = "smaller"
    /\ gridSize = DEFAULT_GRID_SIZE - 1
    /\ historyIndex >= 1
    /\ Len(history[historyIndex]) = DEFAULT_GRID_SIZE
    /\ history[historyIndex][DEFAULT_GRID_SIZE][DEFAULT_GRID_SIZE] # "clear"
    /\ history[historyIndex][1][1] # "clear"
    /\ grid[1][1] = history[historyIndex][1][1]

ShiftDirection(ev) ==
    CASE ev.key = "arrowup" -> "up"
      [] ev.key = "arrowdown" -> "down"
      [] ev.key = "arrowleft" -> "left"
      [] ev.key = "arrowright" -> "right"

\* The cell whose content the claim has arrive at (i, j) on a shift of an
\* n x n grid: the next one, cyclically, in the direction opposite to the shift.
ShiftedFrom(direction, i, j, n) ==
    CASE direction = "up" -> <<(i + 1) % n, j>>
      [] direction = "down" -> <<(i + n - 1) % n, j>>
      [] direction = "left" -> <<i, (j + 1) % n>>
      [] direction = "right" -> <<i, (j + n - 1) % n>>

ShiftRotates ==
    LET n == gridSize
        d == ShiftDirection(event')
    IN /\ gridSize' = n
       /\ fault' = "none"
       /\ Len(grid') = n
       /\ \A i \in 0..(n - 1) :
             /\ Len(grid'[i + 1]) = n
             /\ \A j \in 0..(n - 1) :
                   grid'[i + 1][j + 1] =
                      CellAt(grid, ShiftedFrom(d, i, j, n)[1], ShiftedFrom(d, i, j, n)[2])

\* C25: an arrow key leaves gridSize N as it was and a grid of N rows of N
\* cells in which cell (i, j) holds what cell ((i + 1) mod N, j) held after
\* arrow up, ((i - 1) mod N, j) after arrow down, (i, (j + 1) mod N) after
\* arrow left and (i, (j - 1) mod N) after arrow right, and the handler
\* raises nothing.
ShiftIsCyclic == [][IsShift(event') => ShiftRotates]_vars

\* The same for the shifts of a grid that is gridSize x gridSize.
ShiftIsCyclicOnSquareGrid ==
    [][(IsShift(event') /\ IsSquareGrid(grid, gridSize)) => ShiftRotates]_vars

\* C26: no operation (cell edit, shift, invert, resize, load, undo, redo)
\* writes a row array that a history entry holds, so the contents of an
\* entry never change once it is pushed; and an entry stays at its place,
\* the same arrays, for as long as it is neither discarded as a redo
\* candidate nor moved by an eviction.
HistoryEntriesAreIndependent ==
    [][/\ \A k \in 1..Len(heap.history) : \A i \in 1..Len(heap.history[k]) :
             heap'.rows[heap.history[k][i]] = heap.rows[heap.history[k][i]]
       /\ Len(heap'.history) < HISTORY_LIMIT =>
             \A k \in 1..Min(Min(heap.historyIndex, heap'.historyIndex) + 1, Len(heap'.history)) :
                heap'.history[k] = heap.history[k]]_vars

\* A cell was painted, the edit undone and another cell painted: the entry
\* that was restored is still the empty grid, and the grid shares no row
\* array with any entry.
HistoryEntriesAreIndependentWitness ==
    /\ heap.trace = <<"mousedown", "undo", "mousedown">>
    /\ heap.historyIndex = 1
    /\ Deref(heap.rows, heap.history[1]) = createEmptyGrid(DEFAULT_GRID_SIZE)
    /\ Deref(heap.rows, heap.grid) # createEmptyGrid(DEFAULT_GRID_SIZE)
    /\ Deref(heap.rows, heap.history[2]) = Deref(heap.rows, heap.grid)
    /\ \A k \in 1..Len(heap.history) : Range(heap.history[k]) \cap Range(heap.grid) = {}

\* C27: the drop of an image file, the completion of its read and of its
\* decoding, and a click on clear-background leave the grid, gridSize, the
\* history and its index as they were; the decoded image becomes the
\* backdrop, and clearing leaves none.
BackdropLeavesGridAlone ==
    [][(event'.type \in {"imagedrop", "imageread", "imageload", "clearbackground"}) =>
          /\ UNCHANGED <<grid, gridSize, history, historyIndex>>
          /\ event'.type = "imageload" => backgroundImage' = Some(event'.image)
          /\ event'.type = "clearbackground" => backgroundImage' = Null]_vars

\* An image has become the backdrop of a painted grid.
BackdropLeavesGridAloneWitness ==
    /\ event.type = "imageload"
    /\ backgroundImage = Some(event.image)
    /\ Len(history) >= 2
    /\ grid # createEmptyGrid(DEFAULT_GRID_SIZE)
    /\ SameContents(grid, history[historyIndex + 1])

IsPaintKey(ev) == ev.type = "keydown" /\ ev.key \in PaintKeys /\ ~ev.ctrl /\ ~ev.shift

\* The state the claim and the README give each paint key.
KeyState(key) ==
    CASE key = "z" -> "black"
      [] key = "x" -> "clear"
      [] key = "q" -> "bottom-right"
      [] key = "w" -> "bottom-left"
      [] key = "a" -> "top-right"
      [] key = "s" -> "top-left"

PaintKeyPaintsHovered ==
    IF hoverPosition = Null
    THEN grid' = grid
    ELSE LET hp == hoverPosition[1]
         IN /\ HasCell(grid, hp.row, hp.col)
            /\ fault' = "none"
            /\ grid' = [grid EXCEPT ![hp.row + 1][hp.col + 1] = KeyState(event'.key)]

\* C28: a paint key pressed without a modifier while a cell is hovered sets
\* that cell to the key's state (Z black, X clear, Q bottom-right, W
\* bottom-left, A top-right, S top-left) and changes no other cell, and
\* raises nothing; pressed while no cell is hovered it changes no cell.
PaintKeySetsHoveredCell == [][IsPaintKey(event') => PaintKeyPaintsHovered]_vars

\* The same for the key presses over a gridSize x gridSize grid with the
\* hovered cell inside it.
PaintKeySetsHoveredCellInGrid ==
    [][(/\ IsPaintKey(event')
        /\ IsSquareGrid(grid, gridSize)
        /\ hoverPosition # Null => (hoverPosition[1].row < gridSize /\ hoverPosition[1].col < gridSize))
       => PaintKeyPaintsHovered]_vars

ExportedFiles == Range(downloads.saved) \cup Range(downloads.encoding)

\* C29: any two exported files made from equal grids carry the same stem,
\* whatever the history, the hover, the drawing session and the backdrop at
\* the two exports, and the files made by one click (the PNG, SVG and JSON
\* of export-all) carry one stem.
ExportStemFollowsGrid ==
    \A f1 \in ExportedFiles : \A f2 \in ExportedFiles :
        /\ f1.grid = f2.grid => f1.stem = f2.stem
        /\ f1.click = f2.click => f1.stem = f2.stem

\* Export-all has saved its three files under the stem of the empty grid,
\* 7dbe3388, and after a cell was painted and the edit undone a later export
\* of the same grid, at another history length and under a backdrop, has
\* that stem again.
ExportStemFollowsGridWitness ==
    /\ \A x \in {"png", "svg", "json"} : \E f \in Range(downloads.saved) :
          /\ f.click = 1
          /\ f.ext = x
          /\ f.stem = <<"7", "d", "b", "e", "3", "3", "8", "8">>
          /\ f.grid = createEmptyGrid(DEFAULT_GRID_SIZE)
    /\ \E f \in Range(downloads.saved) :
          /\ f.click = 2
          /\ f.grid = createEmptyGrid(DEFAULT_GRID_SIZE)
          /\ f.stem = <<"7", "d", "b", "e", "3", "3", "8", "8">>
    /\ Len(history) = 2
    /\ historyIndex = 0
    /\ backgroundImage # Null
    /\ hoverPosition # Null

\* C30: between events the grid equals in content the history entry at
\* historyIndex.
GridIsCurrentEntry ==
    /\ historyIndex >= 0
    /\ historyIndex < Len(history)
    /\ SameContents(grid, history[historyIndex + 1])

\* Every handler other than the completion of a read, and that raises no
\* TypeError, keeps the equality.
GridStaysCurrentEntryWithoutLoads ==
    [][(GridIsCurrentEntry /\ event'.type # "load" /\ fault' # "TypeError")
          => GridIsCurrentEntry']_vars

\* C31: in every reachable state where undo is not a no-op (historyIndex > 0),
\* undo followed at once by redo leaves the grid, gridSize, the history index
\* and the history entries exactly as they were before the undo.
UndoThenRedoRestores ==
    historyIndex > 0 =>
        LET s == redo(undo(App))
        IN /\ s.grid = grid
           /\ s.gridSize = gridSize
           /\ s.historyIndex = historyIndex
           /\ s.history = history

\* The same in the states where the grid equals the entry at the index.
UndoThenRedoRestoresCurrentEntry ==
    (historyIndex > 0 /\ GridIsCurrentEntry) =>
        LET s == redo(undo(App))
        IN /\ s.grid = grid
           /\ s.gridSize = gridSize
           /\ s.historyIndex = historyIndex
           /\ s.history = history

\* The state a compact code stands for.
StateOfCode(c) == CHOOSE p \in PixelState : CompactCode(p) = c

\* The files the loader takes a grid from, and that grid.
Loads(f) ==
    /\ ~Rejected(f)
    /\ f.version = Some(1) => f.grid # Null
    /\ f.version = Some(2) => f.data # Null
GridOfFile(f) ==
    IF f.version = Some(1) THEN f.grid[1]
    ELSE LET n == sqrtInt(Len(f.data[1]))
         IN [i \in 1..n |-> [j \in 1..n |-> StateOfCode(f.data[1][(i - 1) * n + j])]]

\* Reader j's read was pending at some moment of reader k's read, which is
\* still pending.
PendingTogether(rs, k, j) ==
    /\ j # k
    /\ rs[k].done = 0
    /\ rs[j].done = 0 \/ rs[j].done > rs[k].dropped

\* The reader whose read completed last.
LastCompleted(rs) == CHOOSE k \in 1..Len(rs) : \A j \in 1..Len(rs) : rs[j].done <= rs[k].done

\* C32: reads of JSON files that are pending together are neither serialized
\* nor cancelled: each of them, on completing with a file the loader takes a
\* grid from, makes that grid the grid, whichever was dropped first; so once
\* both have completed the grid is that of the read that completed last.
OverlappingLoadsLastCompletedWins ==
    /\ [][\A k \in 1..Len(readers) :
             (/\ readers[k].done = 0
              /\ readers'[k].done > 0
              /\ Loads(readers[k].file)
              /\ \E j \in 1..Len(readers) : PendingTogether(readers, k, j))
             => grid' = GridOfFile(readers[k].file)]_vars
    /\ [](((Len(readers) = 2
            /\ readers[1].done > 0
            /\ readers[2].done > 0
            /\ readers[1].done > readers[2].dropped
            /\ Loads(readers[LastCompleted(readers)].file))
           => grid = GridOfFile(readers[LastCompleted(readers)].file)))

\* Two files were dropped one after the other, the read of the second
\* completed first and the read of the first last: the grid is that of the
\* file dropped first.
OverlappingLoadsLastCompletedWinsWitness ==
    /\ Len(readers) = 2
    /\ readers[2].dropped < readers[2].done
    /\ readers[2].done < readers[1].done
    /\ Loads(readers[1].file)
    /\ Loads(readers[2].file)
    /\ GridOfFile(readers[1].file) # GridOfFile(readers[2].file)
    /\ grid = GridOfFile(readers[1].file)

\* Something is held: the button pressed on the canvas, or a paint key.
SomethingHeld == held.button \/ held.keys # {}

\* C33: the drawing session is active exactly while the mouse button pressed
\* on the canvas or a paint key is held: the release of the last of them ends
\* it wherever the pointer is, the release of a paint key does not end it
\* while the button is down, and a pointer move with nothing held changes no
\* cell.
SessionActiveExactlyWhileHeld ==
    /\ [](isDrawing <=> SomethingHeld)
    /\ [][(event'.type = "mousemove" /\ ~SomethingHeld) => grid' = grid]_vars

\* The session is never active with nothing held.
SessionInactiveWhenNothingHeld == ~SomethingHeld => ~isDrawing
\* The session is never inactive with something held.
SessionActiveWhenSomethingHeld == SomethingHeld => isDrawing
\* A pointer move with nothing held changes no cell.
IdleMoveChangesNothing ==
    [][(event'.type = "mousemove" /\ ~SomethingHeld) => grid' = grid]_vars
\* A pointer move with the session inactive changes no cell.
InactiveMoveChangesNothing ==
    [][(event'.type = "mousemove" /\ ~isDrawing) => grid' = grid]_vars

\* A paint key went down over a hovered cell A, it is still held, and the
\* pointer now moves to another cell B: every cell of the grid on the
\* rasterized line from A to B holds the key's state after the move.
KeyDragPaintsLine ==
    LET A == hoverPosition[1]
        B == hoverPosition'[1]
        line == Range(bresenhamLine(A.col, A.row, B.col, B.row))
    IN \A row \in 0..(gridSize - 1) : \A col \in 0..(gridSize - 1) :
          <<col, row>> \in line => CellAt(grid', row, col) = KeyState(event.key)

KeyDragStarts ==
    /\ IsPaintKey(event)
    /\ event.key \in held.keys
    /\ hoverPosition # Null
    /\ event'.type = "mousemove"
    /\ hoverPosition' # Null
    /\ <<hoverPosition'[1].row, hoverPosition'[1].col>>
          # <<hoverPosition[1].row, hoverPosition[1].col>>

\* C34: while a paint key is held and the pointer moves from the cell A it
\* hovered at key-down to another cell B, every in-grid cell on the
\* rasterized line from A to B holds the key's state once the move is
\* handled, whatever state A had when the key went down.
KeyDragPaintsLineFromAnyCell == [][KeyDragStarts => KeyDragPaintsLine]_vars

\* The same when the key-down changed cell A, which then did not hold the
\* key's state.
KeyDragPaintsLineFromChangedCell ==
    [][(KeyDragStarts /\ pushed = 1) => KeyDragPaintsLine]_vars

\* Shrinking at gridSize 1 changes neither grid, gridSize nor history.
ShrinkAtOneIsNoOp ==
    [][(event'.type = "smaller" /\ gridSize = 1)
          => UNCHANGED <<grid, gridSize, history, historyIndex>>]_vars

\* gridSize is at least 1.
GridSizeAtLeastOne == gridSize >= 1

\* C35: after any sequence of resizes and loads the grid has at least one
\* row and gridSize is at least 1: shrinking a 1 x 1 grid changes neither the
\* grid nor the history, and no load the loader accepts (a version-2 file
\* with an empty data string and a version-1 file with an empty grid
\* included) leaves the grid without rows.
GridNeverWithoutRows ==
    /\ [](Len(grid) >= 1 /\ gridSize >= 1)
    /\ ShrinkAtOneIsNoOp
    /\ [][(event'.type = "load" /\ Loads(event'.file)) => Len(grid') >= 1]_vars

\* The same for the loads of files that carry at least one cell.
LoadOfCellsLeavesRows ==
    [][(event'.type = "load" /\ Loads(event'.file) /\ GridOfFile(event'.file) # << >>)
          => Len(grid') >= 1]_vars

\* n presses of the arrow key of direction d, one after the other.
RECURSIVE shiftTimes(_, _, _)
shiftTimes(s, d, n) == IF n = 0 THEN s ELSE shiftTimes(shiftGrid(s, d), d, n - 1)

ShiftsUndoEachOther ==
    /\ shiftGrid(shiftGrid(App, "up"), "down").grid = grid
    /\ shiftGrid(shiftGrid(App, "left"), "right").grid = grid
    /\ \A d \in Directions : shiftTimes(App, d, gridSize).grid = grid

\* C36: in every reachable state, arrow up followed by arrow down, and arrow
\* left followed by arrow right, give back the grid exactly, and so do
\* gridSize presses of one arrow key in a row.
ShiftsAreInvertibleRotations == ShiftsUndoEachOther

\* The same in the states whose grid is gridSize x gridSize.
ShiftsAreInvertibleOnSquareGrid == IsSquareGrid(grid, gridSize) => ShiftsUndoEachOther

\* A click on bigger followed by a click on smaller, and the other way round.
GrowThenShrink == makeGridSmaller(makeGridBigger(App))
ShrinkThenGrow == makeGridBigger(makeGridSmaller(App))

ResizePairs ==
    /\ GrowThenShrink.grid = grid
    /\ GrowThenShrink.gridSize = gridSize
    /\ LET r == ShrinkThenGrow.grid
           last == Len(r)
       IN /\ last >= 1
          /\ \A i \in 0..(gridSize - 2) : \A j \in 0..(gridSize - 2) :
                /\ HasCell(r, i, j)
                /\ HasCell(grid, i, j)
                /\ r[i + 1][j + 1] = grid[i + 1][j + 1]
          /\ \A k \in 1..last :
                /\ Len(r[k]) = last
                /\ r[last][k] = "clear"
                /\ r[k][last] = "clear"

\* C37: growing the grid by one and then shrinking it by one gives back the
\* grid cell for cell and gridSize; shrinking by one and then growing by one
\* keeps the top-left (N-1) x (N-1) block and leaves the last row and the
\* last column of the resulting grid clear.
ResizeThereAndBack == ResizePairs

\* The same in the states whose grid is gridSize x gridSize.
ResizeThereAndBackOnSquareGrid == IsSquareGrid(grid, gridSize) => ResizePairs

====
